---- MODULE Spec2Model ----
(***************************************************************************)
(* One nightly cycle of fink_fat's night_to_night_association              *)
(* (src/fink_fat/associations/inter_night_associations.py) as a state      *)
(* machine, with the pure helpers of that file as operators.               *)
(*                                                                         *)
(* A table (pandas DataFrame) is a sequence of rows.  A trajectory row is  *)
(* [candid, trajectory_id, nid, not_updated]; an observation row of a pool *)
(* is [candid, nid].  not_updated is "True", "False" or "NaN" (the value   *)
(* pandas gives a row that comes from a frame without that column).        *)
(* The sky is one-dimensional: the observation with candid c lies at       *)
(* ra = c degrees, dec = 0.                                                *)
(***************************************************************************)
EXTENDS Integers, Sequences, FiniteSets, TLC

(* ------------------------------ bounds -------------------------------- *)
MaxObs == 6
TrajTimeWindow == 2
Traj2PointsTimeWindow == 1
ObsTimeWindow == 1
MaxRows == 3

(* arguments of night_to_night_association that stay fixed: the default
   orbfit_limit, and the intra-night separation criterion in units of the
   grid spacing (neighbouring observations are one criterion apart) *)
orbfit_limit == 3
intra_night_sep_criterion == 1

NextNid == TrajTimeWindow + ObsTimeWindow + 5
FarSep == MaxObs + 1

VARIABLES
    pc,                          \* position in night_to_night_association
    trajectory_df,               \* argument: the recorded trajectories
    old_observation,             \* argument: the old-observation pool
    new_observation,             \* argument: the observations of the new night
    sep_criterion,               \* argument: inter-night separation criterion
    flags,                       \* arguments do_*_assoc
    last_trajectory_id,
    old_traj, most_recent_traj,  \* results of time_window_management
    kept_old_observation,        \* old_observation after line 494
    tracklets, remaining_new_observations, intra_night_report,
    small_track, track_orb,
    traj_with_track, not_associated_tracklets, max_traj_id,
    traj_with_new_obs, track_with_old_obs, remain_old_obs, new_trajectory,
    reports,                     \* the four stage reports
    inter_night_report,
    ret_traj, ret_old, ret_report,   \* the returned triple
    trace,                       \* history: the steps taken, in order
    T, T1, T2, apc,              \* align_trajectory_id on its own
    call, result                 \* one call of a helper function on its own

cycleVars == <<pc, trajectory_df, old_observation, new_observation, sep_criterion,
               flags, last_trajectory_id, old_traj, most_recent_traj,
               kept_old_observation, tracklets, remaining_new_observations,
               intra_night_report, small_track, track_orb, traj_with_track,
               not_associated_tracklets, max_traj_id, traj_with_new_obs,
               track_with_old_obs, remain_old_obs, new_trajectory, reports,
               inter_night_report, ret_traj, ret_old, ret_report, trace>>
alignVars == <<T, T1, T2, apc>>
callVars == <<call, result>>
vars == <<cycleVars, alignVars, callVars>>

(* ------------------------- tables (DataFrames) ------------------------ *)
Range(s) == {s[i] : i \in DOMAIN s}
Candids(tab) == {tab[i].candid : i \in DOMAIN tab}
Ids(tab) == {tab[i].trajectory_id : i \in DOMAIN tab}
RowsOf(tab, id) == SelectSeq(tab, LAMBDA r : r.trajectory_id = id)
Max(S) == CHOOSE x \in S : \A y \in S : y <= x
Min(S) == CHOOSE x \in S : \A y \in S : x <= y
Abs(x) == IF x < 0 THEN -x ELSE x
\* the elements of a set of integers, in increasing order (np.unique's order)
RECURSIVE SortedSeq(_)
SortedSeq(S) == IF S = {} THEN <<>> ELSE <<Min(S)>> \o SortedSeq(S \ {Min(S)})
\* the python dict {}
EmptyMap == [k \in {} |-> 0]
EmptyTable == <<>>
\* a pool row that joins a trajectory: the frame it comes from has no
\* not_updated column, so pd.concat fills NaN
AsTrajRow(o, id) ==
    [candid |-> o.candid, trajectory_id |-> id, nid |-> o.nid, not_updated |-> "NaN"]
AsObsRow(r) == [candid |-> r.candid, nid |-> r.nid]
Ra(c) == c

(* ---------------- helpers of inter_night_associations.py -------------- *)
\* variants of translate_tr with a slip: identifiers taken in decreasing order,
\* numbered from 1, numbered in the order of their first row
translate_tr_descending(trajectories) ==
    LET tr_id == SortedSeq(Ids(trajectories))
    IN  [old_id \in Ids(trajectories) |->
            Len(tr_id) - (CHOOSE k \in DOMAIN tr_id : tr_id[k] = old_id)]
translate_tr_from_one(trajectories) ==
    LET tr_id == SortedSeq(Ids(trajectories))
    IN  [old_id \in Ids(trajectories) |->
            (CHOOSE k \in DOMAIN tr_id : tr_id[k] = old_id)]
translate_tr_first_row(trajectories) ==
    LET first(id) == Min({i \in DOMAIN trajectories : trajectories[i].trajectory_id = id})
    IN  [old_id \in Ids(trajectories) |->
            Cardinality({id \in Ids(trajectories) : first(id) < first(old_id)})]

\* np.unique(trajectories["trajectory_id"]) zipped with np.arange
translate_tr(trajectories) ==
    LET tr_id == SortedSeq(Ids(trajectories))
    IN  [old_id \in Ids(trajectories) |->
            (CHOOSE k \in DOMAIN tr_id : tr_id[k] = old_id) - 1]

align_trajectory_id(trajectories) ==
    [i \in DOMAIN trajectories |->
        [trajectories[i] EXCEPT
            !.trajectory_id = translate_tr(trajectories)[trajectories[i].trajectory_id]]]

\* variant with a slip: > in place of >= at line 58
separate_trajectories_strict(tab, limit) ==
    LET traj_length(id) == Len(RowsOf(tab, id))
        traj_id_sup == {id \in Ids(tab) : traj_length(id) > limit}
        traj_id_inf == {id \in Ids(tab) : ~(traj_length(id) > limit)}
    IN  << SelectSeq(tab, LAMBDA r : r.trajectory_id \in traj_id_inf),
           SelectSeq(tab, LAMBDA r : r.trajectory_id \in traj_id_sup) >>

\* <<other_track, track_to_orb>>
separate_trajectories(tab, limit) ==
    LET traj_length(id) == Len(RowsOf(tab, id))
        traj_id_sup == {id \in Ids(tab) : traj_length(id) >= limit}
        traj_id_inf == {id \in Ids(tab) : ~(traj_length(id) >= limit)}
    IN  << SelectSeq(tab, LAMBDA r : r.trajectory_id \in traj_id_inf),
           SelectSeq(tab, LAMBDA r : r.trajectory_id \in traj_id_sup) >>

(* ------ intra_night_association.py (not in src/: from the design) ------ *)
\* the same-night pairs within the intra-night separation criterion
IntraCandidates(obs) ==
    {{a, b} : a, b \in Candids(obs)} \ {{c} : c \in Candids(obs)}
IntraWithinSep(obs) ==
    {e \in IntraCandidates(obs) : \A a, b \in e : Abs(Ra(a) - Ra(b)) <= intra_night_sep_criterion}

RECURSIVE Reach(_, _)
Reach(S, E) ==
    LET N == S \cup {y \in UNION E : \E e \in E : y \in e /\ e \cap S # {}}
    IN  IF N = S THEN S ELSE Reach(N, E)
Components(E) == {Reach({c}, E) : c \in UNION E}

\* tracklets of the accepted pairs E: one id per connected component, counted
\* up from the baseline in the order of the components' first observation
new_trajectory_id_assignation(obs, E, baseline) ==
    LET firsts == SortedSeq({Min(C) : C \in Components(E)})
        idOf(c) == baseline + (CHOOSE k \in DOMAIN firsts : firsts[k] = Min(Reach({c}, E))) - 1
        members == SelectSeq(obs, LAMBDA o : o.candid \in UNION E)
        byId(k) == SelectSeq(members, LAMBDA o : idOf(o.candid) = baseline + k - 1)
        RECURSIVE cat(_)
        cat(k) == IF k > Len(firsts) THEN <<>>
                  ELSE [i \in DOMAIN byId(k) |-> AsTrajRow(byId(k)[i], baseline + k - 1)] \o cat(k + 1)
    IN  cat(1)

intra_night_association_report(obs, E) ==
    ("number of separation association" :> Cardinality(IntraWithinSep(obs)))
    @@ ("number of association filtered by magnitude" :> Cardinality(IntraWithinSep(obs) \ E))

\* variant with a slip: the observations of the tracklets not removed (line 165)
intra_night_step_keeping_all(obs, baseline, E) ==
    LET tr == new_trajectory_id_assignation(obs, E, baseline)
    IN  [tracklets |-> tr,
         new_observation_not_associated |-> obs,
         intra_night_report |->
            ("number of intra night tracklets" :> Cardinality(Ids(tr)))
            @@ intra_night_association_report(obs, E)]

\* intra_night_step, E being the pairs intra_night_association accepts:
\* [tracklets, new_observation_not_associated, intra_night_report]
intra_night_step(obs, baseline, E) ==
    LET tr == new_trajectory_id_assignation(obs, E, baseline)
    IN  [tracklets |-> tr,
         new_observation_not_associated |->
            IF Len(tr) > 0
            THEN SelectSeq(obs, LAMBDA o : ~(o.candid \in Candids(tr)))
            ELSE obs,
         intra_night_report |->
            ("number of intra night tracklets" :> Cardinality(Ids(tr)))
            @@ intra_night_association_report(obs, E)]

(* ---------- associations.py (not in src/: from the design) ------------ *)
LastRow(tab, id) == RowsOf(tab, id)[Len(RowsOf(tab, id))]
FirstRow(tab, id) == RowsOf(tab, id)[1]
Age(row) == NextNid - row.nid

\* a trajectory stays in the working set while its most recent night is within
\* traj_time_window, a two-point trajectory only within traj_2_points_time_window
KeptTrajIds(tab) ==
    {id \in Ids(tab) :
        /\ Age(LastRow(tab, id)) <= TrajTimeWindow
        /\ (Len(RowsOf(tab, id)) > 2 \/ Age(LastRow(tab, id)) <= Traj2PointsTimeWindow)}

\* [old_traj, most_recent_traj, old_observation]
time_window_management(tab, old_obs) ==
    [old_traj |-> SelectSeq(tab, LAMBDA r : ~(r.trajectory_id \in KeptTrajIds(tab))),
     most_recent_traj |-> SelectSeq(tab, LAMBDA r : r.trajectory_id \in KeptTrajIds(tab)),
     old_observation |-> SelectSeq(old_obs, LAMBDA o : Age(o) <= ObsTimeWindow)]

Near(a, b, sep) == Abs(Ra(a) - Ra(b)) <= sep
\* the one-to-one associations among the candidate pairs
Matchings(E) ==
    {M \in SUBSET E : \A p, q \in M : p # q => (p[1] # q[1] /\ p[2] # q[2])}
AssocReport(M) == ("number of associations" :> Cardinality(M))

\* candidates <<trajectory id, tracklet id>>: last observation of a trajectory
\* against the first observation of a tracklet
TrackTrajCandidates(trajs, tracks, sep) ==
    {p \in Ids(trajs) \X Ids(tracks) :
        Near(LastRow(trajs, p[1]).candid, FirstRow(tracks, p[2]).candid, sep)}

\* M: the associations left by the magnitude, mirror and cone-search filters
tracklets_and_trajectories_associations(trajs, tracks, M, next_id) ==
    LET matched == {p[2] : p \in M}
        trajOf(t) == (CHOOSE p \in M : p[2] = t)[1]
        taken == SelectSeq(tracks, LAMBDA r : r.trajectory_id \in matched)
    IN  [traj_with_track |->
            trajs \o [i \in DOMAIN taken |->
                        [taken[i] EXCEPT !.trajectory_id = trajOf(taken[i].trajectory_id)]],
         not_associated_tracklets |->
            SelectSeq(tracks, LAMBDA r : ~(r.trajectory_id \in matched)),
         max_traj_id |-> next_id,
         report |-> AssocReport(M)]

\* candidates <<trajectory id, candid>>: trajectories not yet extended this night
TrajNewCandidates(trajs, new_obs, sep) ==
    {p \in Ids(trajs) \X Candids(new_obs) :
        /\ LastRow(trajs, p[1]).nid < NextNid
        /\ Near(LastRow(trajs, p[1]).candid, p[2], sep)}

trajectories_with_new_observations_associations(trajs, new_obs, M, next_id) ==
    LET matched == {p[2] : p \in M}
        trajOf(c) == (CHOOSE p \in M : p[2] = c)[1]
        taken == SelectSeq(new_obs, LAMBDA o : o.candid \in matched)
    IN  [traj_with_new_obs |->
            trajs \o [i \in DOMAIN taken |-> AsTrajRow(taken[i], trajOf(taken[i].candid))],
         remaining_new_observations |->
            SelectSeq(new_obs, LAMBDA o : ~(o.candid \in matched)),
         max_traj_id |-> next_id,
         report |-> AssocReport(M)]

\* candidates <<tracklet id, candid of an old observation>>
TrackOldCandidates(tracks, old_obs, sep) ==
    {p \in Ids(tracks) \X Candids(old_obs) :
        Near(FirstRow(tracks, p[1]).candid, p[2], sep)}

old_observations_with_tracklets_associations(tracks, old_obs, M, next_id) ==
    LET matched == {p[2] : p \in M}
        trackOf(c) == (CHOOSE p \in M : p[2] = c)[1]
        taken == SelectSeq(old_obs, LAMBDA o : o.candid \in matched)
    IN  [track_with_old_obs |->
            tracks \o [i \in DOMAIN taken |-> AsTrajRow(taken[i], trackOf(taken[i].candid))],
         remain_old_obs |->
            SelectSeq(old_obs, LAMBDA o : ~(o.candid \in matched)),
         max_traj_id |-> next_id,
         report |-> AssocReport(M)]

\* candidates <<candid of an old observation, candid of a new observation>>
OldNewCandidates(old_obs, new_obs, sep) ==
    {p \in Candids(old_obs) \X Candids(new_obs) : Near(p[1], p[2], sep)}

\* every accepted pair becomes a two-point trajectory with a fresh identifier
old_with_new_observations_associations(old_obs, new_obs, M, next_id) ==
    LET olds == SortedSeq({p[1] : p \in M})
        idOf(c) == next_id + (CHOOSE k \in DOMAIN olds : olds[k] = c) - 1
        newOf(c) == (CHOOSE p \in M : p[1] = c)[2]
        row(tab, c) == (SelectSeq(tab, LAMBDA o : o.candid = c))[1]
        RECURSIVE cat(_)
        cat(k) == IF k > Len(olds) THEN <<>>
                  ELSE << AsTrajRow(row(old_obs, olds[k]), idOf(olds[k])),
                          AsTrajRow(row(new_obs, newOf(olds[k])), idOf(olds[k])) >>
                       \o cat(k + 1)
    IN  [new_trajectory |-> cat(1),
         remain_old_obs |-> SelectSeq(old_obs, LAMBDA o : ~(o.candid \in {p[1] : p \in M})),
         remaining_new_observations |->
            SelectSeq(new_obs, LAMBDA o : ~(o.candid \in {p[2] : p \in M})),
         report |-> AssocReport(M)]

(* --------------------- night_to_night_association --------------------- *)
StageNames == {"track_traj", "traj_new", "track_old", "old_new"}
StageOrder == <<"window", "intra", "track_traj", "traj_new", "track_old", "old_new">>
ReportKeys == {"intra night report", "tracklets associations report",
               "trajectories associations report",
               "track and old obs associations report",
               "old observation and new observation report"}

\* variant with a slip: the + 1 of line 490 forgotten
LastTrajectoryId_without_increment(tab) ==
    IF Len(tab) > 0 THEN Max(Ids(tab)) ELSE 0
LastTrajectoryId(tab) ==
    IF Len(tab) > 0 THEN Max(Ids(tab)) + 1 ELSE 0

EarlyReturnTest == Len(most_recent_traj) = 0 /\ Len(kept_old_observation) = 0
\* variant with a slip: the evicted trajectories left out of the early return
EarlyReturnTraj_tracklets_only == tracklets
EarlyReturnTraj == old_traj \o tracklets
\* variant with a slip: the last report key forgotten
EarlyReturnReport_short ==
    inter_night_report
    @@ ("intra night report" :> intra_night_report)
    @@ ("tracklets associations report" :> EmptyMap)
    @@ ("trajectories associations report" :> EmptyMap)
    @@ ("track and old obs associations report" :> EmptyMap)
EarlyReturnReport ==
    inter_night_report
    @@ ("intra night report" :> intra_night_report)
    @@ ("tracklets associations report" :> EmptyMap)
    @@ ("trajectories associations report" :> EmptyMap)
    @@ ("track and old obs associations report" :> EmptyMap)
    @@ ("old observation and new observation report" :> EmptyMap)

TrackTrajTest ==
    Len(most_recent_traj) > 0 /\ Len(tracklets) > 0 /\ flags["track_traj"]
\* variant with a slip: every recorded trajectory given to the stage
TrackTrajArgs_all_trajectories == <<trajectory_df, small_track>>
TrackTrajArgs == <<most_recent_traj, small_track>>
TrajNewTest ==
    Len(traj_with_track) > 0 /\ Len(remaining_new_observations) > 0 /\ flags["traj_new"]
TrajNewArgs == <<traj_with_track, remaining_new_observations>>
\* variant with a slip: do_track_and_old_obs_assoc left out of the test
TrackOldTest_ignoring_flag ==
    Len(not_associated_tracklets) > 0 /\ Len(kept_old_observation) > 0
TrackOldTest ==
    Len(not_associated_tracklets) > 0 /\ Len(kept_old_observation) > 0 /\ flags["track_old"]
TrackOldArgs == <<not_associated_tracklets, kept_old_observation>>
OldNewTest ==
    Len(remain_old_obs) > 0 /\ Len(remaining_new_observations) > 0 /\ flags["old_new"]
\* variant with a slip: the pool as it was before the tracklet stage
OldNewArgs_before_track_old == <<kept_old_observation, remaining_new_observations>>
OldNewArgs == <<remain_old_obs, remaining_new_observations>>

\* variants of the concatenation of line 693 with a slip: the long tracklets
\* forgotten, every tracklet concatenated instead of the long ones
FinalMostRecentTraj_without_track_orb ==
    traj_with_new_obs \o track_with_old_obs \o new_trajectory
FinalMostRecentTraj_all_tracklets ==
    tracklets \o traj_with_new_obs \o track_with_old_obs \o new_trajectory
FinalMostRecentTraj ==
    track_orb \o traj_with_new_obs \o track_with_old_obs \o new_trajectory
\* variant with a slip: the new observations left over not added to the pool
FinalOldObservation_without_new == remain_old_obs
\* variant with a slip: the pool as it was before the stages took from it
FinalOldObservation_from_kept_pool == kept_old_observation \o remaining_new_observations
FinalOldObservation == remain_old_obs \o remaining_new_observations
FinalReport ==
    inter_night_report
    @@ ("intra night report" :> intra_night_report)
    @@ ("tracklets associations report" :> reports["track_traj"])
    @@ ("trajectories associations report" :> reports["traj_new"])
    @@ ("track and old obs associations report" :> reports["track_old"])
    @@ ("old observation and new observation report" :> reports["old_new"])
\* trajectory_df["not_updated"] = np.ones(len(trajectory_df), dtype=np.bool_)
SetNotUpdated(tab) == [i \in DOMAIN tab |-> [tab[i] EXCEPT !.not_updated = "True"]]
\* variant with a slip: the evicted trajectories left out of line 707
FinalTrajectoryDf_without_old_traj == SetNotUpdated(FinalMostRecentTraj)
FinalTrajectoryDf == SetNotUpdated(old_traj \o FinalMostRecentTraj)

Step(name, ran, left, right) ==
    [stage |-> name, ran |-> ran, left |-> Len(left), right |-> Len(right)]

(* ------------------------------ inputs -------------------------------- *)
\* two-point and three-point trajectories, each kept or evicted by its window
TrajShapes ==
    {[size |-> 2, age |-> 1], [size |-> 2, age |-> Traj2PointsTimeWindow + 1],
     [size |-> 3, age |-> TrajTimeWindow], [size |-> 3, age |-> TrajTimeWindow + 1]}

\* the rows of trajectories of the given shapes, in time order, each
\* trajectory's last row being age nights before the new night
RECURSIVE TrajRows(_, _, _)
TrajRows(shapes, first_candid, first_id) ==
    IF shapes = <<>> THEN <<>>
    ELSE LET s == Head(shapes)
         IN  [i \in 1..s.size |->
                [candid |-> first_candid + i - 1,
                 trajectory_id |-> first_id,
                 nid |-> NextNid - s.age - (s.size - i),
                 not_updated |-> "False"]]
             \o TrajRows(Tail(shapes), first_candid + s.size, first_id + 1)

RECURSIVE TotalSize(_)
TotalSize(shapes) == IF shapes = <<>> THEN 0 ELSE Head(shapes).size + TotalSize(Tail(shapes))

\* the three tables hold at most MaxObs observations together; candids are
\* given in the order trajectories, old observations, new observations
InputTrajectories ==
    UNION {{TrajRows(sh, 1, off) :
                sh \in {x \in [1..n -> TrajShapes] : TotalSize(x) <= MaxObs}, off \in {0, 1}} :
           n \in 0..(MaxObs \div 2)}
InputOld(base) ==
    UNION {{[i \in 1..n |-> [candid |-> base + i, nid |-> NextNid - ages[i]]] :
                ages \in [1..n -> {1, ObsTimeWindow + 1}]} : n \in 0..(MaxObs - base)}
InputNew(base) ==
    {[i \in 1..n |-> [candid |-> base + i, nid |-> NextNid]] : n \in 0..(MaxObs - base)}

InputFlags == [StageNames -> BOOLEAN]

NoAlign == /\ T = <<>> /\ T1 = <<>> /\ T2 = <<>> /\ apc = "off"
\* no helper is called on its own
NoCall == /\ call = [fn |-> "none"] /\ result = [state |-> "none"]

Idle ==
    /\ last_trajectory_id = 0
    /\ old_traj = <<>> /\ most_recent_traj = <<>> /\ kept_old_observation = <<>>
    /\ tracklets = <<>> /\ remaining_new_observations = <<>>
    /\ intra_night_report = EmptyMap
    /\ small_track = <<>> /\ track_orb = <<>>
    /\ traj_with_track = <<>> /\ not_associated_tracklets = <<>> /\ max_traj_id = 0
    /\ traj_with_new_obs = <<>> /\ track_with_old_obs = <<>>
    /\ remain_old_obs = <<>> /\ new_trajectory = <<>>
    /\ reports = [s \in StageNames |-> EmptyMap]
    /\ inter_night_report = EmptyMap
    /\ ret_traj = <<>> /\ ret_old = <<>> /\ ret_report = EmptyMap
    /\ trace = <<>>

Init ==
    /\ pc = "start"
    /\ trajectory_df \in InputTrajectories
    /\ old_observation \in InputOld(Len(trajectory_df))
    /\ new_observation \in InputNew(Len(trajectory_df) + Len(old_observation))
    /\ sep_criterion \in {0, FarSep}
    /\ flags \in InputFlags
    /\ Idle
    /\ NoAlign
    /\ NoCall

(* ------------------------------ actions ------------------------------- *)
\* lines 489-505
TimeWindowStep ==
    /\ pc = "start"
    /\ last_trajectory_id' = LastTrajectoryId(trajectory_df)
    /\ LET w == time_window_management(trajectory_df, old_observation)
       IN  /\ old_traj' = w.old_traj
           /\ most_recent_traj' = w.most_recent_traj
           /\ kept_old_observation' = w.old_observation
    /\ inter_night_report' = ("nid of the next night" :> NextNid)
    /\ trace' = Append(trace, Step("window", TRUE, trajectory_df, old_observation))
    /\ pc' = "intra"
    /\ UNCHANGED <<trajectory_df, old_observation, new_observation, sep_criterion, flags,
                   tracklets, remaining_new_observations, intra_night_report,
                   small_track, track_orb, traj_with_track, not_associated_tracklets,
                   max_traj_id, traj_with_new_obs, track_with_old_obs, remain_old_obs,
                   new_trajectory, reports, ret_traj, ret_old, ret_report, alignVars, callVars>>

\* lines 511-518
IntraNightStep ==
    /\ pc = "intra"
    /\ \E E \in SUBSET IntraWithinSep(new_observation) :
         LET r == intra_night_step(new_observation, last_trajectory_id, E)
         IN  /\ tracklets' = r.tracklets
             /\ remaining_new_observations' = r.new_observation_not_associated
             /\ intra_night_report' = r.intra_night_report
    /\ trace' = Append(trace, Step("intra", TRUE, new_observation, new_observation))
    /\ pc' = "check"
    /\ UNCHANGED <<trajectory_df, old_observation, new_observation, sep_criterion, flags,
                   last_trajectory_id, old_traj, most_recent_traj, kept_old_observation,
                   small_track, track_orb, traj_with_track, not_associated_tracklets,
                   max_traj_id, traj_with_new_obs, track_with_old_obs, remain_old_obs,
                   new_trajectory, reports, inter_night_report,
                   ret_traj, ret_old, ret_report, alignVars, callVars>>

\* lines 523-535
EarlyReturn ==
    /\ pc = "check"
    /\ EarlyReturnTest
    /\ ret_traj' = EarlyReturnTraj
    /\ ret_old' = remaining_new_observations
    /\ ret_report' = EarlyReturnReport
    /\ pc' = "done"
    /\ UNCHANGED <<trajectory_df, old_observation, new_observation, sep_criterion, flags,
                   last_trajectory_id, old_traj, most_recent_traj, kept_old_observation,
                   tracklets, remaining_new_observations, intra_night_report,
                   small_track, track_orb, traj_with_track, not_associated_tracklets,
                   max_traj_id, traj_with_new_obs, track_with_old_obs, remain_old_obs,
                   new_trajectory, reports, inter_night_report, trace, alignVars, callVars>>

\* lines 537-542
SeparateStep ==
    /\ pc = "check"
    /\ ~EarlyReturnTest
    /\ IF Len(tracklets) > 0
       THEN /\ small_track' = separate_trajectories(tracklets, orbfit_limit)[1]
            /\ track_orb' = separate_trajectories(tracklets, orbfit_limit)[2]
            /\ last_trajectory_id' = Max(Ids(tracklets)) + 1
       ELSE /\ small_track' = EmptyTable
            /\ track_orb' = EmptyTable
            /\ UNCHANGED last_trajectory_id
    /\ pc' = "track_traj"
    /\ UNCHANGED <<trajectory_df, old_observation, new_observation, sep_criterion, flags,
                   old_traj, most_recent_traj, kept_old_observation,
                   tracklets, remaining_new_observations, intra_night_report,
                   traj_with_track, not_associated_tracklets,
                   max_traj_id, traj_with_new_obs, track_with_old_obs, remain_old_obs,
                   new_trajectory, reports, inter_night_report,
                   ret_traj, ret_old, ret_report, trace, alignVars, callVars>>

\* lines 545-579
TrackTrajStep ==
    /\ pc = "track_traj"
    /\ \/ /\ TrackTrajTest
          /\ \E M \in Matchings(TrackTrajCandidates(TrackTrajArgs[1], TrackTrajArgs[2],
                                                    sep_criterion)) :
               LET r == tracklets_and_trajectories_associations(
                            TrackTrajArgs[1], TrackTrajArgs[2], M, last_trajectory_id)
               IN  /\ traj_with_track' = r.traj_with_track
                   /\ not_associated_tracklets' = r.not_associated_tracklets
                   /\ max_traj_id' = r.max_traj_id
                   /\ reports' = [reports EXCEPT !["track_traj"] = r.report]
          /\ trace' = Append(trace, Step("track_traj", TRUE, TrackTrajArgs[1], TrackTrajArgs[2]))
       \/ /\ ~TrackTrajTest
          /\ traj_with_track' = most_recent_traj
          /\ not_associated_tracklets' = small_track
          /\ max_traj_id' = last_trajectory_id
          /\ reports' = [reports EXCEPT !["track_traj"] = EmptyMap]
          /\ trace' = Append(trace, Step("track_traj", FALSE, TrackTrajArgs[1], TrackTrajArgs[2]))
    /\ pc' = "traj_new"
    /\ UNCHANGED <<trajectory_df, old_observation, new_observation, sep_criterion, flags,
                   last_trajectory_id, old_traj, most_recent_traj, kept_old_observation,
                   tracklets, remaining_new_observations, intra_night_report,
                   small_track, track_orb, traj_with_new_obs, track_with_old_obs,
                   remain_old_obs, new_trajectory, inter_night_report,
                   ret_traj, ret_old, ret_report, alignVars, callVars>>

\* lines 582-617
TrajNewStep ==
    /\ pc = "traj_new"
    /\ \/ /\ TrajNewTest
          /\ \E M \in Matchings(TrajNewCandidates(TrajNewArgs[1], TrajNewArgs[2],
                                                  sep_criterion)) :
               LET r == trajectories_with_new_observations_associations(
                            TrajNewArgs[1], TrajNewArgs[2], M, max_traj_id)
               IN  /\ traj_with_new_obs' = r.traj_with_new_obs
                   /\ remaining_new_observations' = r.remaining_new_observations
                   /\ max_traj_id' = r.max_traj_id
                   /\ reports' = [reports EXCEPT !["traj_new"] = r.report]
          /\ trace' = Append(trace, Step("traj_new", TRUE, TrajNewArgs[1], TrajNewArgs[2]))
       \/ /\ ~TrajNewTest
          /\ traj_with_new_obs' = traj_with_track
          /\ reports' = [reports EXCEPT !["traj_new"] = EmptyMap]
          /\ trace' = Append(trace, Step("traj_new", FALSE, TrajNewArgs[1], TrajNewArgs[2]))
          /\ UNCHANGED <<remaining_new_observations, max_traj_id>>
    /\ pc' = "track_old"
    /\ UNCHANGED <<trajectory_df, old_observation, new_observation, sep_criterion, flags,
                   last_trajectory_id, old_traj, most_recent_traj, kept_old_observation,
                   tracklets, intra_night_report, small_track, track_orb,
                   traj_with_track, not_associated_tracklets, track_with_old_obs,
                   remain_old_obs, new_trajectory, inter_night_report,
                   ret_traj, ret_old, ret_report, alignVars, callVars>>

\* lines 620-656
TrackOldStep ==
    /\ pc = "track_old"
    /\ \/ /\ TrackOldTest
          /\ \E M \in Matchings(TrackOldCandidates(TrackOldArgs[1], TrackOldArgs[2],
                                                   sep_criterion)) :
               LET r == old_observations_with_tracklets_associations(
                            TrackOldArgs[1], TrackOldArgs[2], M, max_traj_id)
               IN  /\ track_with_old_obs' = r.track_with_old_obs
                   /\ remain_old_obs' = r.remain_old_obs
                   /\ max_traj_id' = r.max_traj_id
                   /\ reports' = [reports EXCEPT !["track_old"] = r.report]
          /\ trace' = Append(trace, Step("track_old", TRUE, TrackOldArgs[1], TrackOldArgs[2]))
       \/ /\ ~TrackOldTest
          /\ track_with_old_obs' = not_associated_tracklets
          /\ remain_old_obs' = kept_old_observation
          /\ reports' = [reports EXCEPT !["track_old"] = EmptyMap]
          /\ trace' = Append(trace, Step("track_old", FALSE, TrackOldArgs[1], TrackOldArgs[2]))
          /\ UNCHANGED max_traj_id
    /\ pc' = "old_new"
    /\ UNCHANGED <<trajectory_df, old_observation, new_observation, sep_criterion, flags,
                   last_trajectory_id, old_traj, most_recent_traj, kept_old_observation,
                   tracklets, remaining_new_observations, intra_night_report,
                   small_track, track_orb, traj_with_track, not_associated_tracklets,
                   traj_with_new_obs, new_trajectory, inter_night_report,
                   ret_traj, ret_old, ret_report, alignVars, callVars>>

\* lines 659-690
OldNewStep ==
    /\ pc = "old_new"
    /\ \/ /\ OldNewTest
          /\ \E M \in Matchings(OldNewCandidates(OldNewArgs[1], OldNewArgs[2],
                                                 sep_criterion)) :
               LET r == old_with_new_observations_associations(
                            OldNewArgs[1], OldNewArgs[2], M, max_traj_id)
               IN  /\ new_trajectory' = r.new_trajectory
                   /\ remain_old_obs' = r.remain_old_obs
                   /\ remaining_new_observations' = r.remaining_new_observations
                   /\ reports' = [reports EXCEPT !["old_new"] = r.report]
          /\ trace' = Append(trace, Step("old_new", TRUE, OldNewArgs[1], OldNewArgs[2]))
       \/ /\ ~OldNewTest
          /\ new_trajectory' = EmptyTable
          /\ reports' = [reports EXCEPT !["old_new"] = EmptyMap]
          /\ trace' = Append(trace, Step("old_new", FALSE, OldNewArgs[1], OldNewArgs[2]))
          /\ UNCHANGED <<remain_old_obs, remaining_new_observations>>
    /\ pc' = "final"
    /\ UNCHANGED <<trajectory_df, old_observation, new_observation, sep_criterion, flags,
                   last_trajectory_id, old_traj, most_recent_traj, kept_old_observation,
                   tracklets, intra_night_report, small_track, track_orb,
                   traj_with_track, not_associated_tracklets, max_traj_id,
                   traj_with_new_obs, track_with_old_obs, inter_night_report,
                   ret_traj, ret_old, ret_report, alignVars, callVars>>

\* lines 692-710.  On a table without rows, trajectories.apply(..., axis=1)
\* gives a frame instead of a column, and assigning it to the single column
\* trajectory_id raises in the pandas versions that check the width.
FinalStep ==
    /\ pc = "final"
    /\ \/ /\ ret_traj' = align_trajectory_id(FinalTrajectoryDf)
          /\ ret_old' = FinalOldObservation
          /\ ret_report' = FinalReport
          /\ pc' = "done"
       \/ /\ FinalTrajectoryDf = EmptyTable
          /\ pc' = "raised"
          /\ UNCHANGED <<ret_traj, ret_old, ret_report>>
    /\ UNCHANGED <<trajectory_df, old_observation, new_observation, sep_criterion, flags,
                   last_trajectory_id, old_traj, most_recent_traj, kept_old_observation,
                   tracklets, remaining_new_observations, intra_night_report,
                   small_track, track_orb, traj_with_track, not_associated_tracklets,
                   max_traj_id, traj_with_new_obs, track_with_old_obs, remain_old_obs,
                   new_trajectory, reports, inter_night_report, trace, alignVars, callVars>>

Next ==
    \/ TimeWindowStep
    \/ IntraNightStep
    \/ EarlyReturn
    \/ SeparateStep
    \/ TrackTrajStep
    \/ TrajNewStep
    \/ TrackOldStep
    \/ OldNewStep
    \/ FinalStep

Spec == Init /\ [][Next]_vars

(* ------------------- align_trajectory_id on its own ------------------- *)
\* tables of at most MaxRows rows; the identifiers leave gaps and come in any
\* order; the other columns differ from row to row
AlignInputs ==
    UNION {{[i \in 1..n |->
                [candid |-> 10 * i, trajectory_id |-> ids[i], nid |-> NextNid - i,
                 not_updated |-> IF i % 2 = 0 THEN "True" ELSE "False"]] :
            ids \in [1..n -> 0..(MaxRows + 1)]} : n \in 0..MaxRows}

InitAlign ==
    /\ pc = "off"
    /\ trajectory_df = <<>> /\ old_observation = <<>> /\ new_observation = <<>>
    /\ sep_criterion = 0
    /\ flags = [s \in StageNames |-> TRUE]
    /\ Idle
    /\ T \in AlignInputs
    /\ T1 = <<>> /\ T2 = <<>>
    /\ apc = "in"
    /\ NoCall

\* lines 222-229, with the same outcomes on a table without rows as FinalStep
AlignOnce ==
    /\ apc = "in"
    /\ \/ /\ T1' = align_trajectory_id(T)
          /\ apc' = "once"
       \/ /\ T = EmptyTable
          /\ apc' = "raised"
          /\ UNCHANGED T1
    /\ UNCHANGED <<T, T2, cycleVars, callVars>>

AlignTwice ==
    /\ apc = "once"
    /\ T2' = align_trajectory_id(T1)
    /\ apc' = "twice"
    /\ UNCHANGED <<T, T1, cycleVars, callVars>>

NextAlign == AlignOnce \/ AlignTwice

SpecAlign == InitAlign /\ [][NextAlign]_vars

(* ------ first_method/night_to_night_association.py: identifiers ------- *)
MaxAssoc == 3

\* a cell of the column trajectory_id: a list of identifiers (the recorded
\* trajectories, and the tracklet rows once reassigned) or one identifier
ListCell(ids) == [list |-> TRUE, ids |-> ids]
ScalarCell(id) == [list |-> FALSE, ids |-> <<id>>]

Indices(tab) == [i \in DOMAIN tab |-> i]
\* the rows of tab at the positions idx, in the order of idx (tab.loc[idx])
Loc(tab, idx) == [k \in DOMAIN idx |-> tab[idx[k]]]
\* DataFrame.duplicated(["trajectory_id"]): every row but the first of each value
Duplicated(tab, k) == \E j \in 1..(k - 1) : tab[j].trajectory_id = tab[k].trajectory_id
\* the index lists of the groups of traj_left with one row (multiple false) or
\* with several (multiple true), exploded, the groups in the order of their key
RECURSIVE ExplodeIndex(_, _, _)
ExplodeIndex(traj_left, keys, multiple) ==
    IF keys = <<>> THEN <<>>
    ELSE LET index == SelectSeq(Indices(traj_left),
                                LAMBDA i : traj_left[i].trajectory_id = Head(keys))
         IN  (IF (Len(index) > 1) = multiple THEN index ELSE <<>>)
             \o ExplodeIndex(traj_left, Tail(keys), multiple)

\* lines 133-143: for each row in turn, the tracklet rows whose identifier is
\* the row's tmp_traj get the one-element list of the row's trajectory_id
RECURSIVE assign_new_trajectory_id_to_new_tracklets(_, _)
assign_new_trajectory_id_to_new_tracklets(new_obs_to_be_assign, traj_next_night) ==
    IF new_obs_to_be_assign = <<>> THEN traj_next_night
    ELSE LET rows == Head(new_obs_to_be_assign)
             mask(r) == ~r.trajectory_id.list /\ r.trajectory_id.ids[1] = rows.tmp_traj
         IN  assign_new_trajectory_id_to_new_tracklets(
                 Tail(new_obs_to_be_assign),
                 [i \in DOMAIN traj_next_night |->
                     IF mask(traj_next_night[i])
                     THEN [traj_next_night[i] EXCEPT
                              !.trajectory_id = ListCell(<<rows.trajectory_id>>)]
                     ELSE traj_next_night[i]])

\* lines 169-182: for each row in turn, every recorded row whose list holds the
\* row's trajectory_id gets the row's tmp_traj appended
RECURSIVE AppendOtherOccur(_, _)
AppendOtherOccur(other_occur, tab) ==
    IF other_occur = <<>> THEN tab
    ELSE LET rows == Head(other_occur)
             mask(r) == \E i \in DOMAIN r.trajectory_id.ids :
                            r.trajectory_id.ids[i] = rows.trajectory_id
         IN  AppendOtherOccur(
                 Tail(other_occur),
                 [i \in DOMAIN tab |->
                     IF mask(tab[i])
                     THEN [tab[i] EXCEPT
                              !.trajectory_id =
                                  ListCell(tab[i].trajectory_id.ids \o <<rows.tmp_traj>>)]
                     ELSE tab[i]])

\* lines 145-192: [trajectory_df, traj_next_night]
trajectory_id_management(traj_left, traj_right, traj_next_night, tab) ==
    LET keys == SortedSeq({traj_left[i].trajectory_id : i \in DOMAIN traj_left})
        single_obs == Loc(traj_right, ExplodeIndex(traj_left, keys, FALSE))
        multiple_obs == Loc(traj_right, ExplodeIndex(traj_left, keys, TRUE))
        first_occur == Loc(multiple_obs,
                           SelectSeq(Indices(multiple_obs),
                                     LAMBDA k : Duplicated(multiple_obs, k)))
        other_occur == Loc(multiple_obs,
                           SelectSeq(Indices(multiple_obs),
                                     LAMBDA k : ~Duplicated(multiple_obs, k)))
        drop_tmp_traj(t) ==
            [i \in DOMAIN t |->
                [candid |-> t[i].candid, trajectory_id |-> ScalarCell(t[i].trajectory_id)]]
        rename_tmp_traj(t) ==
            [i \in DOMAIN t |->
                [candid |-> t[i].candid, trajectory_id |-> ScalarCell(t[i].tmp_traj)]]
    IN  [trajectory_df |->
            AppendOtherOccur(other_occur, tab)
            \o drop_tmp_traj(first_occur) \o rename_tmp_traj(other_occur)
            \o drop_tmp_traj(single_obs),
         traj_next_night |->
            assign_new_trajectory_id_to_new_tracklets(
                single_obs,
                assign_new_trajectory_id_to_new_tracklets(first_occur, traj_next_night))]

(* ------- first_method/night_to_night_association.py: separation ------- *)
MaxSide == 2

\* tables of observations [candid, ra] on the line dec = 0
SkyRows(base) ==
    UNION {{[i \in 1..n |-> [candid |-> base + i, ra |-> r[i]]] :
                r \in [1..n -> 0..MaxSide]} : n \in 0..MaxSide}
Separation(a, b) == Abs(a.ra - b.ra)
Perms(S) == {p \in [1..Cardinality(S) -> S] : \A i, j \in DOMAIN p : i # j => p[i] # p[j]}

\* self.search_around_sky(searcharoundcoords, seplimit): the pairs
\* <<index in searcharoundcoords, index in self>> within seplimit, those of
\* one index of searcharoundcoords together, in the order the k-d tree gives
RECURSIVE SearchFrom(_, _, _, _)
SearchFrom(self, searcharoundcoords, seplimit, i) ==
    IF i > Len(searcharoundcoords) THEN {<<>>}
    ELSE LET near == {j \in DOMAIN self :
                        Separation(self[j], searcharoundcoords[i]) <= seplimit}
         IN  {[k \in 1..Cardinality(near) |-> <<i, p[k]>>] \o rest :
                 p \in Perms(near),
                 rest \in SearchFrom(self, searcharoundcoords, seplimit, i + 1)}
search_around_sky(self, searcharoundcoords, seplimit) ==
    SearchFrom(self, searcharoundcoords, seplimit, 1)

\* tab.iloc[idx]
Iloc(tab, idx) ==
    IF \A k \in DOMAIN idx : idx[k] \in DOMAIN tab
    THEN [state |-> "returned", value |-> [k \in DOMAIN idx |-> tab[idx[k]]]]
    ELSE [state |-> "raised", exception |-> "IndexError"]

\* variant with a slip: the two index arrays unpacked in the other order
night_to_night_separation_association_swapped(old_obs, new_obs, found) ==
    LET old_obs_idx == [k \in DOMAIN found |-> found[k][1]]
        new_obs_idx == [k \in DOMAIN found |-> found[k][2]]
        sep2d == [k \in DOMAIN found |->
                    Separation(old_obs[found[k][2]], new_obs[found[k][1]])]
        old_obs_assoc == Iloc(old_obs, old_obs_idx)
        new_obs_assoc == Iloc(new_obs, new_obs_idx)
    IN  IF old_obs_assoc.state = "raised" THEN old_obs_assoc
        ELSE IF new_obs_assoc.state = "raised" THEN new_obs_assoc
        ELSE [state |-> "returned",
              value |-> <<old_obs_assoc.value, new_obs_assoc.value, sep2d>>]

\* lines 42-49, found being what search_around_sky returns:
\* <<old_obs_assoc, new_obs_assoc, sep2d>>
night_to_night_separation_association(old_obs, new_obs, found) ==
    LET new_obs_idx == [k \in DOMAIN found |-> found[k][1]]
        old_obs_idx == [k \in DOMAIN found |-> found[k][2]]
        sep2d == [k \in DOMAIN found |->
                    Separation(old_obs[found[k][2]], new_obs[found[k][1]])]
        old_obs_assoc == Iloc(old_obs, old_obs_idx)
        new_obs_assoc == Iloc(new_obs, new_obs_idx)
    IN  IF old_obs_assoc.state = "raised" THEN old_obs_assoc
        ELSE IF new_obs_assoc.state = "raised" THEN new_obs_assoc
        ELSE [state |-> "returned",
              value |-> <<old_obs_assoc.value, new_obs_assoc.value, sep2d>>]

(* ------------------------- read_oel (.oel files) ----------------------- *)
MaxLines == 14

\* An .oel file is absent, or cannot be read as text (open or readlines
\* raises something other than FileNotFoundError), or is a text of nlines
\* lines; epoch_ok: the line of index 9 holds a number as second word;
\* rms_ok: the words of the line of index 13 are at least four characters long.
\* The entries of the record returned are "ref_jd", "orb", "rms" or "-1".
OelFiles ==
    {[state |-> "absent"], [state |-> "undecodable"]}
    \cup {[state |-> "text", nlines |-> n, epoch_ok |-> e, rms_ok |-> r] :
            n \in 0..MaxLines, e \in BOOLEAN, r \in BOOLEAN}
Repeat(x, n) == [i \in 1..n |-> x]
Returned(v, logged) == [state |-> "returned", value |-> v, logged |-> logged]
Raised(exc) == [state |-> "raised", exception |-> exc]

\* fink_fat/orbit_fitting/orbfit_files.py, get_orb_and_rms
get_orb_and_rms(file, index_orb, index_rms) ==
    IF file.nlines <= index_orb THEN Raised("IndexError")
    ELSE IF file.nlines > index_rms
         THEN IF file.rms_ok
              THEN Returned(Repeat("orb", 6) \o Repeat("rms", 6), FALSE)
              ELSE Raised("IndexError")
         ELSE Returned(Repeat("orb", 6) \o Repeat("-1", 6), FALSE)

\* read_oel_lines(lines), one designation
read_oel_lines(file) ==
    IF file.nlines <= 2 THEN Raised("Exception")
    ELSE IF file.nlines <= 9 THEN Raised("IndexError")
    ELSE IF ~file.epoch_ok THEN Raised("ValueError")
    ELSE LET orb_params_rms == get_orb_and_rms(file, 8, 13)
         IN  IF orb_params_rms.state = "raised" THEN orb_params_rms
             ELSE Returned(<<"ref_jd">> \o orb_params_rms.value, FALSE)

\* read_oel(ram_dir, first_desig), second_desig None.  The handler of
\* Exception prints lines (line 646), which is not bound when open or
\* readlines raised.
read_oel(file) ==
    IF file.state = "absent" THEN Returned(Repeat("-1", 13), FALSE)
    ELSE IF file.state = "undecodable" THEN Raised("UnboundLocalError")
    ELSE IF read_oel_lines(file).state = "raised" THEN Returned(Repeat("-1", 13), TRUE)
    ELSE read_oel_lines(file)

\* alert_association/orbit_fitting/orbfit_management.py, read_oel(prov_desig):
\* only FileNotFoundError is handled
read_oel_orbfit_management(file) ==
    IF file.state = "absent" THEN Returned(Repeat("-1", 12), FALSE)
    ELSE IF file.state = "undecodable" THEN Raised("UnicodeDecodeError")
    ELSE IF file.nlines <= 7 THEN Raised("IndexError")
    ELSE IF file.nlines > 12
         THEN Returned(Repeat("orb", 6) \o Repeat("rms", 6), FALSE)
         ELSE Returned(Repeat("orb", 6) \o Repeat("-1", 6), FALSE)

(* ----------------------- one helper on its own ------------------------ *)
\* the recorded trajectories 0 and 1, two observations each
MergeTrajectoryDf ==
    [i \in 1..4 |-> [candid |-> i, trajectory_id |-> ListCell(<<(i - 1) \div 2>>)]]
\* the tracklets of the new night, numbered after the recorded trajectories
TrackletIds == 5..(4 + MaxAssoc)
\* their rows other than the extremity that was associated
MergeTrajNextNight ==
    [k \in 1..MaxAssoc |->
        [candid |-> 10 * (4 + k) + 1, trajectory_id |-> ScalarCell(4 + k)]]
\* one to MaxAssoc associations <<trajectory, tracklet>>, no pair twice:
\* traj_left holds the last observation of the trajectory, traj_right the
\* extremity of the tracklet with the trajectory's identifier (line 90)
MergeCalls ==
    UNION {{[fn |-> "trajectory_id_management",
             traj_left |->
                [i \in 1..n |-> [candid |-> 2 * (a[i][1] + 1), trajectory_id |-> a[i][1]]],
             traj_right |->
                [i \in 1..n |-> [candid |-> 10 * a[i][2], tmp_traj |-> a[i][2],
                                 trajectory_id |-> a[i][1]]],
             traj_next_night |-> MergeTrajNextNight,
             trajectory_df |-> MergeTrajectoryDf] :
            a \in {x \in [1..n -> {0, 1} \X TrackletIds] :
                      \A i, j \in 1..n : i # j => x[i] # x[j]}} :
           n \in 1..MaxAssoc}

\* tables of at most MaxRows rows with any identifiers, any limit up to MaxRows
SeparateCalls ==
    {[fn |-> "separate_trajectories", trajectory_df |-> t, orbfit_limit |-> l] :
        t \in AlignInputs, l \in 1..MaxRows}

ReadOelCalls ==
    {[fn |-> f, file |-> x] :
        f \in {"read_oel", "read_oel_orbfit_management"}, x \in OelFiles}

SeparationCalls ==
    {[fn |-> "night_to_night_separation_association",
      old_observation |-> o, new_observation |-> n, separation_criterion |-> c] :
        o \in SkyRows(0), n \in SkyRows(MaxSide), c \in 0..MaxSide}

Calls == MergeCalls \cup SeparateCalls \cup ReadOelCalls \cup SeparationCalls

InitCall ==
    /\ pc = "off"
    /\ trajectory_df = <<>> /\ old_observation = <<>> /\ new_observation = <<>>
    /\ sep_criterion = 0
    /\ flags = [s \in StageNames |-> TRUE]
    /\ Idle
    /\ NoAlign
    /\ call \in Calls
    /\ result = [state |-> "none"]

CallTrajectoryIdManagement ==
    /\ call.fn = "trajectory_id_management"
    /\ result.state = "none"
    /\ result' = [state |-> "returned",
                  value |-> trajectory_id_management(call.traj_left, call.traj_right,
                                                     call.traj_next_night,
                                                     call.trajectory_df)]
    /\ UNCHANGED <<call, cycleVars, alignVars>>

\* lines 16-68
CallSeparateTrajectories ==
    /\ call.fn = "separate_trajectories"
    /\ result.state = "none"
    /\ result' = [state |-> "returned",
                  value |-> separate_trajectories(call.trajectory_df, call.orbfit_limit)]
    /\ UNCHANGED <<call, cycleVars, alignVars>>

CallReadOel ==
    /\ call.fn = "read_oel"
    /\ result.state = "none"
    /\ result' = read_oel(call.file)
    /\ UNCHANGED <<call, cycleVars, alignVars>>

CallReadOelOrbfitManagement ==
    /\ call.fn = "read_oel_orbfit_management"
    /\ result.state = "none"
    /\ result' = read_oel_orbfit_management(call.file)
    /\ UNCHANGED <<call, cycleVars, alignVars>>

\* lines 19-49
CallSeparationAssociation ==
    /\ call.fn = "night_to_night_separation_association"
    /\ result.state = "none"
    /\ \E found \in search_around_sky(call.old_observation, call.new_observation,
                                       call.separation_criterion) :
          result' = night_to_night_separation_association(
                        call.old_observation, call.new_observation, found)
    /\ UNCHANGED <<call, cycleVars, alignVars>>

NextCall ==
    \/ CallSeparationAssociation
    \/ CallTrajectoryIdManagement
    \/ CallSeparateTrajectories
    \/ CallReadOel
    \/ CallReadOelOrbfitManagement

SpecCall == InitCall /\ [][NextCall]_vars

(* ---------- fink_fat/streaming_associations/orbit_assoc.py ------------- *)
MaxAlerts == 2
\* julian dates are counted in half days
Day == 2

\* fitroid_assoc.roid_mask (not in src/), as the docstring of
\* orbit_association describes it: the alerts flagged 3 when confirmed_sso,
\* those flagged 1 or 2 otherwise, each with its position in the batch
roid_mask(alerts, confirmed_sso) ==
    LET idx_keep_mask == SortedSeq({i \in DOMAIN alerts :
                                      IF confirmed_sso THEN alerts[i].flag = 3
                                      ELSE alerts[i].flag \in {1, 2}})
    IN  [k \in DOMAIN idx_keep_mask |->
            [ra |-> alerts[idx_keep_mask[k]].ra,
             magpsf |-> alerts[idx_keep_mask[k]].magpsf,
             fid |-> alerts[idx_keep_mask[k]].fid,
             jd |-> alerts[idx_keep_mask[k]].jd,
             candid |-> alerts[idx_keep_mask[k]].candid,
             idx_mask |-> idx_keep_mask[k]]]

\* fitroid_assoc.ang2pix (not in src/): the sky pixel of a position, a pixel
\* being two grid steps wide
ang2pix(ra) == ra \div 2

\* variant with a slip: the dates filtered, the sky pixels not
ephem_window_without_pixels(ephem_pdf, alerts_mask) ==
    IF Len(alerts_mask) = 0
    THEN [state |-> "raised", exception |-> "ValueError"]
    ELSE LET jd_mask == {alerts_mask[i].jd : i \in DOMAIN alerts_mask}
         IN  [state |-> "returned",
              value |-> SelectSeq(ephem_pdf,
                            LAMBDA e : /\ e.epoch_jd >= Min(jd_mask)
                                       /\ e.epoch_jd <= Max(jd_mask))]

\* lines 238-247; np.min of an empty array raises
ephem_window(ephem_pdf, alerts_mask) ==
    IF Len(alerts_mask) = 0
    THEN [state |-> "raised", exception |-> "ValueError"]
    ELSE LET jd_mask == {alerts_mask[i].jd : i \in DOMAIN alerts_mask}
             alert_pix == {ang2pix(alerts_mask[i].ra) : i \in DOMAIN alerts_mask}
         IN  [state |-> "returned",
              value |-> SelectSeq(ephem_pdf,
                            LAMBDA e : /\ e.epoch_jd >= Min(jd_mask)
                                       /\ e.epoch_jd <= Max(jd_mask)
                                       /\ ang2pix(e.ra) \in alert_pix)]

\* orbit_pdf.merge(ephem_assoc, on="ssoCandId"): the inner join, its rows in
\* the order of the keys of the left table (lines 400-402)
RECURSIVE Merge(_, _)
Merge(left, right) ==
    IF left = <<>> THEN <<>>
    ELSE LET l == Head(left)
             m == SelectSeq(right, LAMBDA r : r.ssoCandId = l.ssoCandId)
         IN  [k \in DOMAIN m |->
                 [ssoCandId |-> l.ssoCandId, last_mag |-> l.last_mag,
                  last_jd |-> l.last_jd, last_fid |-> l.last_fid,
                  ra |-> m[k].ra, epoch_jd |-> m[k].epoch_jd]]
             \o Merge(Tail(left), right)

\* variant with a slip: the two thresholds taken one for the other
mag_criterion_swapped(fid, last_fid, mag_criterion_same_fid, mag_criterion_diff_fid) ==
    IF fid = last_fid THEN mag_criterion_diff_fid ELSE mag_criterion_same_fid

\* lines 410-415
mag_criterion(fid, last_fid, mag_criterion_same_fid, mag_criterion_diff_fid) ==
    IF fid = last_fid THEN mag_criterion_same_fid ELSE mag_criterion_diff_fid

\* lines 406-408 and 418: rate < mag_criterion, with
\* rate = diff_mag / np.where(diff_jd >= 1, diff_jd, 1)
RateBelowCriterion(alert, orbit, mag_criterion_same_fid, mag_criterion_diff_fid) ==
    LET diff_mag == Abs(alert.magpsf - orbit.last_mag)
        diff_jd == alert.jd - orbit.last_jd
        divisor == IF diff_jd >= Day THEN diff_jd ELSE Day
    IN  diff_mag * Day
          < mag_criterion(alert.fid, orbit.last_fid,
                          mag_criterion_same_fid, mag_criterion_diff_fid) * divisor

\* line 418: np.where(rate < mag_criterion)[0]
idx_rate(alert_assoc, ephem_orbit, mag_criterion_same_fid, mag_criterion_diff_fid) ==
    SortedSeq({k \in DOMAIN alert_assoc :
                  RateBelowCriterion(alert_assoc[k], ephem_orbit[k],
                                     mag_criterion_same_fid, mag_criterion_diff_fid)})

\* line 427: alert_assoc.loc[alert_assoc.groupby("candid").sep.idxmin()]
kept_alerts(alert_assoc) ==
    LET candids == SortedSeq(Candids(alert_assoc))
    IN  [c \in DOMAIN candids |->
            LET rows == {k \in DOMAIN alert_assoc : alert_assoc[k].candid = candids[c]}
            IN  alert_assoc[Min({k \in rows :
                                    \A j \in rows : alert_assoc[k].sep <= alert_assoc[j].sep})]]

\* lines 350-438; ephem_file and orbit_file are what SparkFiles holds, found
\* is what search_around_sky gives inside the separation association (the
\* package's associations.py, not in src/, of which lines 19-49 of
\* first_method are the earlier copy)
orbit_association(alerts, confirmed_sso, estimator_id, ffdistnr, mag_criterion_same_fid, mag_criterion_diff_fid, ephem_file, orbit_file, found) ==
    LET flags_in == [i \in DOMAIN alerts |-> alerts[i].flag]
        unchanged == [state |-> "returned",
                      value |-> <<flags_in, estimator_id, ffdistnr>>,
                      candidates |-> <<>>, accepted |-> <<>>]
        alerts_mask == roid_mask(alerts, confirmed_sso)
    IN  IF ephem_file.state = "absent" THEN unchanged
        ELSE IF orbit_file.state = "absent" THEN unchanged
        ELSE IF Len(ephem_file.rows) = 0 THEN unchanged
        ELSE
        LET ephem_to_keep == ephem_window(ephem_file.rows, alerts_mask)
        IN  IF ephem_to_keep.state = "raised" THEN ephem_to_keep
            ELSE IF Len(ephem_to_keep.value) = 0 THEN unchanged
            ELSE
            LET assoc == night_to_night_separation_association(
                             alerts_mask, ephem_to_keep.value, found)
            IN  IF assoc.state = "raised" THEN assoc
                ELSE
                LET alert_assoc == assoc.value[1]
                    ephem_assoc == assoc.value[2]
                    sep == assoc.value[3]
                    merged == Merge(orbit_file.rows, ephem_assoc)
                IN  IF Len(merged) # Len(sep)
                    THEN [state |-> "raised", exception |-> "ValueError"]
                    ELSE
                    LET ephem_orbit == merged
                        idx == idx_rate(alert_assoc, ephem_orbit,
                                        mag_criterion_same_fid, mag_criterion_diff_fid)
                        linked == [k \in DOMAIN idx |->
                                     [candid |-> alert_assoc[idx[k]].candid,
                                      idx_mask |-> alert_assoc[idx[k]].idx_mask,
                                      ssoCandId |-> ephem_orbit[idx[k]].ssoCandId,
                                      sep |-> sep[idx[k]]]]
                        kept == kept_alerts(linked)
                        Kept(i) == {k \in DOMAIN kept : kept[k].idx_mask = i}
                        row(i) == kept[CHOOSE k \in Kept(i) : TRUE]
                    IN  [state |-> "returned",
                         value |->
                            <<[i \in DOMAIN alerts |->
                                 IF Kept(i) # {} THEN 5 ELSE flags_in[i]],
                              [i \in DOMAIN alerts |->
                                 IF Kept(i) # {} THEN <<row(i).ssoCandId>>
                                 ELSE estimator_id[i]],
                              [i \in DOMAIN alerts |->
                                 IF Kept(i) # {} THEN <<row(i).sep>>
                                 ELSE ffdistnr[i]]>>,
                         candidates |->
                            [k \in DOMAIN alert_assoc |->
                                [alert |-> alert_assoc[k], orbit |-> ephem_orbit[k]]],
                         accepted |->
                            [k \in DOMAIN idx |->
                                [alert |-> alert_assoc[idx[k]],
                                 orbit |-> ephem_orbit[idx[k]]]]]

(* ------ first_method/night_to_night_association.py: cone search ------- *)
MaxCone == 2

\* a cell of a row handed to DataFrame.apply: a python list or a number
ListValue(v) == [list |-> TRUE, v |-> v]
ScalarValue(v) == [list |-> FALSE, v |-> v]

\* lines 51-58: the angle between b - a and c - b, given as the least
\* number of right angles it does not exceed (0 for 0 degrees, 1 up to 90,
\* 2 up to 180); NaN when one of the vectors is null (0 / 0)
angle_three_point(a, b, c) ==
    LET ba == <<b[1] - a[1], b[2] - a[2]>>
        bc == <<c[1] - b[1], c[2] - b[2]>>
        dot == ba[1] * bc[1] + ba[2] * bc[2]
        cross == ba[1] * bc[2] - ba[2] * bc[1]
    IN  IF ba = <<0, 0>> \/ bc = <<0, 0>> THEN [nan |-> TRUE]
        ELSE [nan |-> FALSE,
              right_angles |-> IF cross = 0 /\ dot > 0 THEN 0
                               ELSE IF dot >= 0 THEN 1 ELSE 2]

\* lines 61-79: x is the row by position (x[k] of the source is x[k + 1]
\* here); the result is the angle over the divisor
angle_df(x) ==
    LET ra_x == x[2]  dec_x == x[3]  jd_x == x[4]
        ra_y == x[6]  dec_y == x[7]  jd_y == x[8]
    IN  IF ~ra_x.list \/ ~dec_x.list
        THEN [state |-> "raised", exception |-> "TypeError"]
        ELSE IF Len(ra_x.v) < 2 \/ Len(dec_x.v) < 2
        THEN [state |-> "raised", exception |-> "IndexError"]
        ELSE IF ra_y.list \/ dec_y.list \/ jd_y.list
        THEN [state |-> "raised", exception |-> "ValueError"]
        ELSE IF ~jd_x.list
        THEN [state |-> "raised", exception |-> "TypeError"]
        ELSE IF Len(jd_x.v) < 2
        THEN [state |-> "raised", exception |-> "IndexError"]
        ELSE LET a == <<ra_x.v[1], dec_x.v[1]>>
                 b == <<ra_x.v[2], dec_x.v[2]>>
                 c == <<ra_y.v, dec_y.v>>
                 diff_jd == jd_y.v - jd_x.v[2]
             IN  [state |-> "returned",
                  angle |-> angle_three_point(a, b, c),
                  divisor |-> IF diff_jd > 1 THEN diff_jd ELSE 1]

\* line 105: the columns of two_last.merge(new_obs_assoc[[...]],
\* on='trajectory_id'), two_last being indexed by trajectory_id after the
\* groupby: the columns of the left table then those of the right one, the
\* key staying where the right table has it, or the key first
PrepAngleRow(layout, trajectory_id, two_last, index, new_obs) ==
    LET left == <<ListValue([i \in DOMAIN two_last |-> two_last[i].ra]),
                  ListValue([i \in DOMAIN two_last |-> two_last[i].dec]),
                  ListValue([i \in DOMAIN two_last |-> two_last[i].jd]),
                  ScalarValue(Len(two_last))>>
        right == <<ScalarValue(index), ScalarValue(new_obs.ra),
                   ScalarValue(new_obs.dec), ScalarValue(new_obs.jd)>>
    IN  IF layout = "key_last"
        THEN left \o right \o <<ScalarValue(trajectory_id)>>
        ELSE <<ScalarValue(trajectory_id)>> \o left \o right
MergeLayouts == {"key_last", "key_first"}

\* lines 82-114
cone_search_association(two_last_observations, traj_assoc, new_obs_assoc, angle_criterion, layout) ==
    LET n == Len(traj_assoc)
        new_obs(k) == [ra |-> new_obs_assoc[k].ra, dec |-> new_obs_assoc[k].dec,
                       jd |-> new_obs_assoc[k].jd, candid |-> new_obs_assoc[k].candid,
                       tmp_traj |-> new_obs_assoc[k].trajectory_id,
                       trajectory_id |-> traj_assoc[k].trajectory_id]
        two_last(id) == SelectSeq(two_last_observations,
                                  LAMBDA r : r.trajectory_id = id)
        \* the rows of the merge: by trajectory_id, then in the order of new_obs_assoc
        order == SortedSeq({traj_assoc[k].trajectory_id * (n + 1) + k :
                              k \in {j \in 1..n : Len(two_last(traj_assoc[j].trajectory_id)) > 0}})
        at(r) == order[r] % (n + 1)
        angle(r) == angle_df(PrepAngleRow(layout, traj_assoc[at(r)].trajectory_id,
                                          two_last(traj_assoc[at(r)].trajectory_id),
                                          at(r) - 1, new_obs(at(r))))
        remain == SelectSeq([r \in DOMAIN order |-> r],
                            LAMBDA r : /\ ~angle(r).angle.nan
                                       /\ angle(r).angle.right_angles
                                            <= angle_criterion * angle(r).divisor)
    IN  IF \E r \in DOMAIN order : angle(r).state = "raised"
        THEN [state |-> "raised",
              exception |-> angle(Min({r \in DOMAIN order :
                                         angle(r).state = "raised"})).exception]
        ELSE [state |-> "returned",
              value |-> <<[j \in DOMAIN remain |-> traj_assoc[at(remain[j])]],
                          [j \in DOMAIN remain |-> new_obs(at(remain[j]))]>>]

(* --------- orbit_fitting/orbfit_management.py: designations ----------- *)
\* a python str is the sequence of its characters; "?" stands for the
\* characters that are neither letters nor digits nor @
Upper == <<"A", "B", "C", "D", "E", "F", "G", "H", "I", "J", "K", "L", "M",
           "N", "O", "P", "Q", "R", "S", "T", "U", "V", "W", "X", "Y", "Z">>
Lower == <<"a", "b", "c", "d", "e", "f", "g", "h", "i", "j", "k", "l", "m",
           "n", "o", "p", "q", "r", "s", "t", "u", "v", "w", "x", "y", "z">>
Digits == <<"0", "1", "2", "3", "4", "5", "6", "7", "8", "9">>
chr(n) ==
    IF n \in 65..90 THEN Upper[n - 64]
    ELSE IF n \in 97..122 THEN Lower[n - 96]
    ELSE IF n \in 48..57 THEN Digits[n - 47]
    ELSE IF n = 64 THEN "@"
    ELSE "?"
\* str(n) of a natural number
RECURSIVE str(_)
str(n) == IF n <= 9 THEN <<Digits[n + 1]>> ELSE str(n \div 10) \o <<Digits[(n % 10) + 1]>>

half_month_letter ==
    [m \in {"01", "02", "03", "04", "05", "06", "07", "08", "09", "10", "11", "12"} |->
        CASE m = "01" -> <<"A", "B">> [] m = "02" -> <<"C", "D">>
          [] m = "03" -> <<"E", "F">> [] m = "04" -> <<"G", "H">>
          [] m = "05" -> <<"J", "K">> [] m = "06" -> <<"L", "M">>
          [] m = "07" -> <<"N", "O">> [] m = "08" -> <<"P", "Q">>
          [] m = "09" -> <<"R", "S">> [] m = "10" -> <<"T", "U">>
          [] m = "11" -> <<"V", "W">> [] m = "12" -> <<"X", "Y">>]

\* variant with a slip: the letter I is not skipped
second_letter_keeping_i(i, lowercase) ==
    LET case == IF lowercase THEN 64 ELSE 96
    IN  IF i <= 25 THEN <<chr(i + case)>> ELSE <<"N", "o", "n", "e">>

\* lines 55-80; past 25 the function returns None
second_letter(i, lowercase) ==
    LET case == IF lowercase THEN 64 ELSE 96
    IN  IF i <= 8 THEN <<chr(i + case)>>
        ELSE IF i <= 25 THEN <<chr(i + case + 1)>>
        ELSE <<"N", "o", "n", "e">>

left_shift(number, n) == number \div (10 ^ n)
right_shift(number, n) == number % (10 ^ n)

\* lines 111-140
letter_cycle(cycle) ==
    LET c == cycle - 10
        r == (c - 1) \div 25
    IN  IF r > 0
        THEN second_letter(IF c % 25 = 0 THEN 25 ELSE c % 25, FALSE)
        ELSE second_letter(IF c = 0 THEN 1
                           ELSE IF c <= 8 /\ c >= 1 THEN c + 1
                           ELSE c, TRUE)

\* lines 143-181
make_cycle(cycle) ==
    IF cycle <= 9 THEN <<"0">> \o str(cycle)
    ELSE IF cycle <= 99 THEN str(cycle)
    ELSE letter_cycle(left_shift(cycle, 1)) \o str(right_shift(cycle, 1))

\* lines 184-218; time is "year-month-day ..." split already: the digits
\* of the year, the two characters of the month, the day as int() reads it
make_designation(time, discovery_number) ==
    LET year == SubSeq(time.year, Len(time.year) - 1, Len(time.year))
        half_month == IF time.day <= 15 THEN half_month_letter[time.month][1]
                      ELSE half_month_letter[time.month][2]
        order == (discovery_number % 25) + 1
        cycle == discovery_number \div 25
    IN  <<"K">> \o year \o <<half_month>> \o make_cycle(cycle)
          \o second_letter(order, TRUE)

\* lines 226-267: the observations of one trajectory, the designation made
\* from the date of its first one and from its trajectory_id (lines 233 and
\* 244-246), the file mpcobs/<prov_desig>.obs written (lines 263-265) and
\* the designation returned; mpcobs maps each file name to the trajectory
\* whose observations the file holds
write_observation_file(mpcobs, time, traj_id) ==
    LET prov_desig == make_designation(time, traj_id)
    IN  [value |-> prov_desig,
         mpcobs |-> [f \in DOMAIN mpcobs \cup {prov_desig} |->
                        IF f = prov_desig THEN traj_id ELSE mpcobs[f]]]

(* ------------------- further functions on their own ------------------- *)
\* batches of one to MaxAlerts alerts of one exposure, in one filter, listed
\* by right ascension
AlertBatches ==
    UNION {{[i \in 1..n |-> [ra |-> x[i].ra, magpsf |-> x[i].magpsf, fid |-> 1,
                             jd |-> 2 * Day, candid |-> 100 + i,
                             flag |-> x[i].flag]] :
              x \in {y \in [1..n -> [ra : 0..2, magpsf : {0, 3}, flag : {2, 3}]] :
                        \A i \in 1..(n - 1) : y[i].ra <= y[i + 1].ra}} :
           n \in 1..MaxAlerts}

\* the ephemerides of orbit id: any position at the exposure, and for the
\* first orbit one of a later epoch
EphemRows(id) ==
    {[ssoCandId |-> id, ra |-> r, epoch_jd |-> 2 * Day] : r \in 0..2}
      \cup (IF id = 1 THEN {[ssoCandId |-> 1, ra |-> 0, epoch_jd |-> 3 * Day]} ELSE {})
EphemFiles ==
    {[state |-> "absent"]}
      \cup {[state |-> "table", rows |-> t] :
              t \in {<<>>} \cup {<<e>> : e \in EphemRows(1) \cup EphemRows(2)}
                     \cup {<<a, b>> : a \in EphemRows(1), b \in EphemRows(2)}
                     \cup {<<b, a>> : a \in EphemRows(1), b \in EphemRows(2)}}
\* two orbits, one per filter, last observed two days, one day, or half a
\* day before and half a day after the exposure
OrbitFiles ==
    {[state |-> "absent"]}
      \cup {[state |-> "table",
             rows |-> <<[ssoCandId |-> 1, last_mag |-> 0, last_jd |-> j[1], last_fid |-> 1],
                        [ssoCandId |-> 2, last_mag |-> 0, last_jd |-> j[2], last_fid |-> 2]>>] :
              j \in {<<0, 0>>, <<Day, Day>>, <<3, 5>>}}

\* a call with nothing linked yet, the threshold of two exposures in one
\* filter above the one of two filters
OrbitAssociationCall(a, c, e, o) ==
    [fn |-> "orbit_association", alerts |-> a, confirmed_sso |-> c,
     estimator_id |-> [i \in DOMAIN a |-> <<>>],
     ffdistnr |-> [i \in DOMAIN a |-> <<>>],
     mag_criterion_same_fid |-> 2, mag_criterion_diff_fid |-> 1, orbit_error |-> 1,
     ephem_file |-> e, orbit_file |-> o]

\* the two last observations of two trajectories, both last seen on day 1
ConeTwoLast ==
    <<[trajectory_id |-> 0, ra |-> 0, dec |-> 0, jd |-> 0, candid |-> 1],
      [trajectory_id |-> 0, ra |-> 1, dec |-> 0, jd |-> 1, candid |-> 2],
      [trajectory_id |-> 1, ra |-> 1, dec |-> 1, jd |-> 0, candid |-> 3],
      [trajectory_id |-> 1, ra |-> 1, dec |-> 0, jd |-> 1, candid |-> 4]>>
\* one to MaxCone associations of a trajectory with a new point of day 2 or
\* 3; the angle criterion is in right angles
ConeSearchInputs(n) == [1..n -> [traj : 0..1, ra : 0..2, dec : 0..1, jd : 2..3]]
ConeSearchCall(x) ==
    [fn |-> "cone_search_association",
     two_last_observations |-> ConeTwoLast,
     traj_assoc |-> [i \in DOMAIN x |-> ConeTwoLast[2 * x[i].traj + 2]],
     new_obs_assoc |->
        [i \in DOMAIN x |-> [ra |-> x[i].ra, dec |-> x[i].dec, jd |-> x[i].jd,
                             candid |-> 10 + i, trajectory_id |-> 10 + i]],
     angle_criterion |-> 1]

\* the first and the second half of every month of 2021, and a day of 2022
DesignationTimes ==
    {[year |-> <<"2", "0", "2", "1">>, month |-> m, day |-> d] :
        m \in DOMAIN half_month_letter, d \in {1, 15, 16, 22}}
      \cup {[year |-> <<"2", "0", "2", "2">>, month |-> "07", day |-> 4]}
\* every discovery number the cycle count encodes, for the date of the
\* doctests, and the first two cycles for every date
DesignationNumbers(t) ==
    IF t = [year |-> <<"2", "0", "2", "1">>, month |-> "05", day |-> 22]
    THEN 0..(25 * 610 - 1) ELSE 0..49
MakeDesignationCall(t, n) ==
    [fn |-> "make_designation", time |-> t, discovery_number |-> n]

\* two trajectories of the same night written one after the other: every
\* discovery number the cycle count encodes with the next one, the one a
\* cycle later and the one ten cycles later
WriteObservationCall(n, d) ==
    [fn |-> "write_observation_file",
     time |-> [year |-> <<"2", "0", "2", "1">>, month |-> "05", day |-> 22],
     trajectory_ids |-> <<n, n + d>>]

InitStream ==
    /\ pc = "off"
    /\ trajectory_df = <<>> /\ old_observation = <<>> /\ new_observation = <<>>
    /\ sep_criterion = 0
    /\ flags = [s \in StageNames |-> TRUE]
    /\ Idle
    /\ NoAlign
    /\ \/ \E a \in AlertBatches, c \in BOOLEAN, e \in EphemFiles, o \in OrbitFiles :
              call = OrbitAssociationCall(a, c, e, o)
       \/ \E n \in 1..MaxCone : \E x \in ConeSearchInputs(n) : call = ConeSearchCall(x)
       \/ \E t \in DesignationTimes : \E n \in DesignationNumbers(t) :
              call = MakeDesignationCall(t, n)
       \/ \E n \in 0..(25 * 610 - 1), d \in {1, 25, 250} :
              call = WriteObservationCall(n, d)
    /\ result = [state |-> "none"]

\* what search_around_sky can give inside orbit_association
OrbitAssociationFound(c) ==
    LET alerts_mask == roid_mask(c.alerts, c.confirmed_sso)
    IN  IF \/ c.ephem_file.state = "absent" \/ c.orbit_file.state = "absent"
           \/ Len(alerts_mask) = 0
        THEN {<<>>}
        ELSE search_around_sky(alerts_mask,
                               ephem_window(c.ephem_file.rows, alerts_mask).value,
                               c.orbit_error)

CallOrbitAssociation ==
    /\ call.fn = "orbit_association"
    /\ result.state = "none"
    /\ \E found \in OrbitAssociationFound(call) :
          result' = orbit_association(call.alerts, call.confirmed_sso,
                                      call.estimator_id, call.ffdistnr,
                                      call.mag_criterion_same_fid,
                                      call.mag_criterion_diff_fid,
                                      call.ephem_file, call.orbit_file, found)
    /\ UNCHANGED <<call, cycleVars, alignVars>>

CallConeSearchAssociation ==
    /\ call.fn = "cone_search_association"
    /\ result.state = "none"
    /\ \E layout \in MergeLayouts :
          result' = cone_search_association(call.two_last_observations,
                                            call.traj_assoc, call.new_obs_assoc,
                                            call.angle_criterion, layout)
    /\ UNCHANGED <<call, cycleVars, alignVars>>

\* lines 184-218
CallMakeDesignation ==
    /\ call.fn = "make_designation"
    /\ result.state = "none"
    /\ result' = [state |-> "returned",
                  value |-> make_designation(call.time, call.discovery_number)]
    /\ UNCHANGED <<call, cycleVars, alignVars>>

\* lines 226-267, once per trajectory
CallWriteObservationFile ==
    /\ call.fn = "write_observation_file"
    /\ result.state = "none"
    /\ LET first == write_observation_file(<<>>, call.time, call.trajectory_ids[1])
           second == write_observation_file(first.mpcobs, call.time,
                                            call.trajectory_ids[2])
       IN  result' = [state |-> "returned",
                      value |-> <<first.value, second.value>>,
                      mpcobs |-> second.mpcobs]
    /\ UNCHANGED <<call, cycleVars, alignVars>>

NextStream ==
    \/ CallOrbitAssociation
    \/ CallConeSearchAssociation
    \/ CallMakeDesignation
    \/ CallWriteObservationFile

SpecStream == InitStream /\ [][NextStream]_vars

(* ----------------------- a run of several nights ---------------------- *)
MaxNights == 3

\* the caller of night_to_night_association (not in src/): every night it
\* hands back the trajectory set and the pool the last call returned, with
\* the observations of the new night.  Nights are counted backwards from the
\* new one, so a night later every recorded row is one night older.
NightMark == [stage |-> "night", ran |-> TRUE, left |-> 0, right |-> 0]
NightsDone == Len(SelectSeq(trace, LAMBDA s : s.stage = "night"))
ShiftNight(tab) == [i \in DOMAIN tab |-> [tab[i] EXCEPT !.nid = @ - 1]]

InitNights ==
    /\ pc = "start"
    /\ trajectory_df = <<>>
    /\ old_observation = <<>>
    /\ new_observation \in InputNew(0)
    /\ sep_criterion \in {0, FarSep}
    /\ flags = [s \in StageNames |-> TRUE]
    /\ Idle
    /\ NoAlign
    /\ NoCall

NextNight ==
    /\ pc = "done"
    /\ NightsDone + 1 < MaxNights
    /\ pc' = "start"
    /\ trajectory_df' = ShiftNight(ret_traj)
    /\ old_observation' = ShiftNight(ret_old)
    /\ new_observation' \in InputNew(Max(Candids(ret_traj) \cup Candids(ret_old) \cup {0}))
    /\ trace' = SelectSeq(trace, LAMBDA s : s.stage = "night") \o <<NightMark>>
    /\ last_trajectory_id' = 0
    /\ old_traj' = <<>> /\ most_recent_traj' = <<>> /\ kept_old_observation' = <<>>
    /\ tracklets' = <<>> /\ remaining_new_observations' = <<>>
    /\ intra_night_report' = EmptyMap
    /\ small_track' = <<>> /\ track_orb' = <<>>
    /\ traj_with_track' = <<>> /\ not_associated_tracklets' = <<>> /\ max_traj_id' = 0
    /\ traj_with_new_obs' = <<>> /\ track_with_old_obs' = <<>>
    /\ remain_old_obs' = <<>> /\ new_trajectory' = <<>>
    /\ reports' = [s \in StageNames |-> EmptyMap]
    /\ inter_night_report' = EmptyMap
    /\ ret_traj' = <<>> /\ ret_old' = <<>> /\ ret_report' = EmptyMap
    /\ UNCHANGED <<sep_criterion, flags, alignVars, callVars>>

NextNights ==
    \/ TimeWindowStep
    \/ IntraNightStep
    \/ EarlyReturn
    \/ SeparateStep
    \/ TrackTrajStep
    \/ TrajNewStep
    \/ TrackOldStep
    \/ OldNewStep
    \/ FinalStep
    \/ NextNight

SpecNights == InitNights /\ [][NextNights]_vars

(* ------------------------------- claims ------------------------------- *)
Ran(name) == \E i \in DOMAIN trace : trace[i].stage = name /\ trace[i].ran
Skipped(name) == \E i \in DOMAIN trace : trace[i].stage = name /\ ~trace[i].ran
InputCandids ==
    Candids(trajectory_df) \cup Candids(old_observation) \cup Candids(new_observation)
EvictedOld == Candids(old_observation) \ Candids(kept_old_observation)
FirstIndex(tab, id) == Min({i \in DOMAIN tab : tab[i].trajectory_id = id})
CounterNames == {"number of associations", "number of intra night tracklets",
                 "number of separation association",
                 "number of association filtered by magnitude"}

C4_DenseIds ==
    pc = "done" => Ids(ret_traj) = 0..(Cardinality(Ids(ret_traj)) - 1)

\* C5: every row of the returned trajectory set has not_updated true,
\* whichever return path the cycle takes.
C5_AllNotUpdated ==
    pc = "done" => \A i \in DOMAIN ret_traj : ret_traj[i].not_updated = "True"

\* C6: idempotence of renumbering.  Renumbering the renumbered table gives
\* the renumbered table.
C6_AlignIdempotent ==
    apc = "twice" => T2 = T1
C6_Witness ==
    /\ apc = "twice"
    /\ T1 # T
    /\ Cardinality(Ids(T)) >= 2

\* C7: align_trajectory_id maps the distinct identifiers one-to-one onto
\* 0..N-1: rows that shared an identifier share one, rows that differed
\* differ, and the number of rows, their order and the other columns stay.
C7_AlignBijection ==
    apc \in {"once", "twice"} =>
        /\ Len(T1) = Len(T)
        /\ \A i \in DOMAIN T : [T1[i] EXCEPT !.trajectory_id = T[i].trajectory_id] = T[i]
        /\ \A i, j \in DOMAIN T :
              (T[i].trajectory_id = T[j].trajectory_id)
                  <=> (T1[i].trajectory_id = T1[j].trajectory_id)
        /\ Ids(T1) = 0..(Cardinality(Ids(T)) - 1)
C7_Witness ==
    /\ apc = "once"
    /\ Cardinality(Ids(T)) >= 2
    /\ Cardinality(Ids(T)) < Len(T)
    /\ Ids(T) # Ids(T1)

\* C8 as claimed: an identifier whose first row comes earlier gets the
\* smaller new identifier.
C8_FirstAppearanceOrder ==
    apc \in {"once", "twice"} =>
        \A a, b \in Ids(T) :
            FirstIndex(T, a) < FirstIndex(T, b)
                => T1[FirstIndex(T, a)].trajectory_id < T1[FirstIndex(T, b)].trajectory_id
\* C8 amended: align_trajectory_id keeps the numeric order of the
\* identifiers: the row with the smaller old identifier has the smaller new
\* identifier.
C8_NumericOrder ==
    apc \in {"once", "twice"} =>
        \A i, j \in DOMAIN T :
            T[i].trajectory_id < T[j].trajectory_id
                => T1[i].trajectory_id < T1[j].trajectory_id
C8_Witness ==
    /\ apc = "once"
    /\ \E i, j \in DOMAIN T : i < j /\ T[i].trajectory_id > T[j].trajectory_id
    /\ Ids(T) # Ids(T1)

\* C9: on every return path the report holds the five report keys, each
\* bound to a mapping of counters, the empty mapping for a stage that did
\* not run.
ReportKeyOf(name) ==
    CASE name = "track_traj" -> "tracklets associations report"
      [] name = "traj_new" -> "trajectories associations report"
      [] name = "track_old" -> "track and old obs associations report"
      [] name = "old_new" -> "old observation and new observation report"
C9_ReportKeys ==
    pc = "done" =>
        /\ ReportKeys \subseteq DOMAIN ret_report
        /\ \A k \in ReportKeys : DOMAIN ret_report[k] \subseteq CounterNames
        /\ \A name \in StageNames : ~Ran(name) => DOMAIN ret_report[ReportKeyOf(name)] = {}
C9_Witness ==
    /\ pc = "done"
    /\ Len(trace) = 2
    /\ tracklets # <<>>
    /\ DOMAIN ret_report["intra night report"] # {}

\* C10: skip on empty input.  A stage with an empty input side is skipped,
\* and a skipped stage hands both inputs on as they are and leaves the
\* identifier counter where it was.
C10_SkipOnEmpty ==
    [][ /\ (pc = "track_traj" /\ (Len(TrackTrajArgs[1]) = 0 \/ Len(TrackTrajArgs[2]) = 0))
            => /\ ~trace'[Len(trace')].ran
               /\ traj_with_track' = TrackTrajArgs[1]
               /\ not_associated_tracklets' = TrackTrajArgs[2]
               /\ max_traj_id' = last_trajectory_id
        /\ (pc = "traj_new" /\ (Len(TrajNewArgs[1]) = 0 \/ Len(TrajNewArgs[2]) = 0))
            => /\ ~trace'[Len(trace')].ran
               /\ traj_with_new_obs' = TrajNewArgs[1]
               /\ remaining_new_observations' = TrajNewArgs[2]
               /\ max_traj_id' = max_traj_id
        /\ (pc = "track_old" /\ (Len(TrackOldArgs[1]) = 0 \/ Len(TrackOldArgs[2]) = 0))
            => /\ ~trace'[Len(trace')].ran
               /\ track_with_old_obs' = TrackOldArgs[1]
               /\ remain_old_obs' = TrackOldArgs[2]
               /\ max_traj_id' = max_traj_id
        /\ (pc = "old_new" /\ (Len(OldNewArgs[1]) = 0 \/ Len(OldNewArgs[2]) = 0))
            => /\ ~trace'[Len(trace')].ran
               /\ new_trajectory' = EmptyTable
               /\ remain_old_obs' = OldNewArgs[1]
               /\ remaining_new_observations' = OldNewArgs[2]
               /\ max_traj_id' = max_traj_id
      ]_vars

\* C11: each inter-night stage can be disabled on its own.  A stage whose
\* flag is false makes no association: it is recorded as skipped, its report
\* is the empty mapping, and the tables it hands on are its inputs as they
\* were, which is what the stage would hand on had it run and matched
\* nothing; the identifier counter is the one a run without match gives.
C11_StageDisabled ==
    [][ /\ (pc = "track_traj" /\ ~flags["track_traj"])
            => LET r == tracklets_and_trajectories_associations(
                            TrackTrajArgs[1], TrackTrajArgs[2], {}, last_trajectory_id)
               IN  /\ ~trace'[Len(trace')].ran
                   /\ reports'["track_traj"] = EmptyMap
                   /\ traj_with_track' = TrackTrajArgs[1]
                   /\ not_associated_tracklets' = TrackTrajArgs[2]
                   /\ traj_with_track' = r.traj_with_track
                   /\ not_associated_tracklets' = r.not_associated_tracklets
                   /\ max_traj_id' = r.max_traj_id
        /\ (pc = "traj_new" /\ ~flags["traj_new"])
            => LET r == trajectories_with_new_observations_associations(
                            TrajNewArgs[1], TrajNewArgs[2], {}, max_traj_id)
               IN  /\ ~trace'[Len(trace')].ran
                   /\ reports'["traj_new"] = EmptyMap
                   /\ traj_with_new_obs' = TrajNewArgs[1]
                   /\ remaining_new_observations' = TrajNewArgs[2]
                   /\ traj_with_new_obs' = r.traj_with_new_obs
                   /\ remaining_new_observations' = r.remaining_new_observations
                   /\ max_traj_id' = r.max_traj_id
        /\ (pc = "track_old" /\ ~flags["track_old"])
            => LET r == old_observations_with_tracklets_associations(
                            TrackOldArgs[1], TrackOldArgs[2], {}, max_traj_id)
               IN  /\ ~trace'[Len(trace')].ran
                   /\ reports'["track_old"] = EmptyMap
                   /\ track_with_old_obs' = TrackOldArgs[1]
                   /\ remain_old_obs' = TrackOldArgs[2]
                   /\ track_with_old_obs' = r.track_with_old_obs
                   /\ remain_old_obs' = r.remain_old_obs
                   /\ max_traj_id' = r.max_traj_id
        /\ (pc = "old_new" /\ ~flags["old_new"])
            => LET r == old_with_new_observations_associations(
                            OldNewArgs[1], OldNewArgs[2], {}, max_traj_id)
               IN  /\ ~trace'[Len(trace')].ran
                   /\ reports'["old_new"] = EmptyMap
                   /\ new_trajectory' = EmptyTable
                   /\ remain_old_obs' = OldNewArgs[1]
                   /\ remaining_new_observations' = OldNewArgs[2]
                   /\ new_trajectory' = r.new_trajectory
                   /\ remain_old_obs' = r.remain_old_obs
                   /\ remaining_new_observations' = r.remaining_new_observations
                   /\ max_traj_id' = max_traj_id
      ]_vars
\* a disabled stage with both inputs present, and a later stage associating
C11_Witness ==
    /\ pc = "done"
    /\ ~flags["track_traj"]
    /\ \E i \in DOMAIN trace :
          /\ trace[i].stage = "track_traj" /\ ~trace[i].ran
          /\ trace[i].left > 0 /\ trace[i].right > 0
    /\ Ran("track_old")
    /\ Len(track_with_old_obs) > Len(not_associated_tracklets)

\* the trajectories of a table as sets of observations
Groups(tab) == {Candids(RowsOf(tab, id)) : id \in Ids(tab)}
\* no new-night observation within the criterion of an extremity (first or
\* last observation) of a kept trajectory or of a kept old observation
ZeroOverlap ==
    \A n \in Candids(new_observation) :
        /\ \A id \in Ids(most_recent_traj) :
              /\ ~Near(LastRow(most_recent_traj, id).candid, n, sep_criterion)
              /\ ~Near(FirstRow(most_recent_traj, id).candid, n, sep_criterion)
        /\ \A o \in Candids(kept_old_observation) : ~Near(o, n, sep_criterion)

MatchesOf(id) == {i \in DOMAIN call.traj_right : call.traj_right[i].trajectory_id = id}
\* the rows trajectory_id_management adds after the recorded ones
AddedRows == SubSeq(result.value.trajectory_df, Len(call.trajectory_df) + 1,
                    Len(result.value.trajectory_df))
\* the recorded rows of the trajectory id, as returned
ReturnedRowsOf(id) ==
    {result.value.trajectory_df[i] : i \in {j \in DOMAIN call.trajectory_df :
                                             call.trajectory_df[j].trajectory_id.ids[1] = id}}

\* C13: ambiguity-preserving merge.  When several rows of traj_right match
\* one trajectory, the first of them in row order is returned under the
\* trajectory's identifier, each later one is returned under its own
\* identifier (tmp_traj), which is appended to the identifier list of every
\* row of the trajectory, and every matched row is returned.
C13_FirstTakesExistingId ==
    (call.fn = "trajectory_id_management" /\ result.state = "returned") =>
        /\ Len(AddedRows) = Len(call.traj_right)
        /\ \A id \in {0, 1} :
              Cardinality(MatchesOf(id)) > 1 =>
                  LET first == Min(MatchesOf(id))
                      R == call.traj_right
                  IN  /\ \E k \in DOMAIN AddedRows :
                            /\ AddedRows[k].candid = R[first].candid
                            /\ AddedRows[k].trajectory_id = ScalarCell(id)
                      /\ \A i \in MatchesOf(id) \ {first} :
                            /\ \E k \in DOMAIN AddedRows :
                                  /\ AddedRows[k].candid = R[i].candid
                                  /\ AddedRows[k].trajectory_id = ScalarCell(R[i].tmp_traj)
                            /\ \A r \in ReturnedRowsOf(id) :
                                  R[i].tmp_traj \in Range(r.trajectory_id.ids)

\* C14: separate_trajectories is a partition.  Every input row is in exactly
\* one of other_track and track_to_orb, nothing else is, the rows of one
\* trajectory_id are all in the same output, and a trajectory is in
\* track_to_orb exactly when it has at least orbfit_limit rows.
C14_Partition ==
    (call.fn = "separate_trajectories" /\ result.state = "returned") =>
        LET tab == call.trajectory_df
            other_track == result.value[1]
            track_to_orb == result.value[2]
        IN  /\ Len(other_track) + Len(track_to_orb) = Len(tab)
            /\ \A i \in DOMAIN tab :
                  (tab[i] \in Range(other_track)) # (tab[i] \in Range(track_to_orb))
            /\ Range(other_track) \cup Range(track_to_orb) \subseteq Range(tab)
            /\ Ids(other_track) \cap Ids(track_to_orb) = {}
            /\ \A id \in Ids(tab) :
                  id \in Ids(track_to_orb) <=> Len(RowsOf(tab, id)) >= call.orbfit_limit
C14_Witness ==
    /\ call.fn = "separate_trajectories" /\ result.state = "returned"
    /\ call.orbfit_limit >= 2
    /\ result.value[1] # <<>> /\ result.value[2] # <<>>
    /\ \E id \in Ids(call.trajectory_df) :
          Len(RowsOf(call.trajectory_df, id)) = call.orbfit_limit

\* C15: intra_night_step splits the observations of the night.  The
\* tracklets and the leftovers share no observation and together hold every
\* input observation once; the leftovers are the input rows, in input order,
\* whose candid is in no tracklet, the whole input when there is no tracklet;
\* "number of intra night tracklets" is the number of distinct tracklet ids.
C15_IntraNightSplit ==
    pc = "check" =>
        /\ Candids(tracklets) \cap Candids(remaining_new_observations) = {}
        /\ Candids(tracklets) \cup Candids(remaining_new_observations)
              = Candids(new_observation)
        /\ Len(tracklets) + Len(remaining_new_observations) = Len(new_observation)
        /\ remaining_new_observations
              = SelectSeq(new_observation, LAMBDA o : ~(o.candid \in Candids(tracklets)))
        /\ tracklets = EmptyTable => remaining_new_observations = new_observation
        /\ intra_night_report["number of intra night tracklets"]
              = Cardinality(Ids(tracklets))
C15_Witness ==
    /\ pc = "check"
    /\ Cardinality(Ids(tracklets)) >= 2
    /\ remaining_new_observations # <<>>
    /\ \E id \in Ids(tracklets) : Len(RowsOf(tracklets, id)) >= 3

\* C16: fresh identifiers.  Before the final renumbering, every identifier
\* minted in the cycle is at least max(trajectory_id) + 1 of the input
\* trajectories, 0 when there are none: the identifiers of the tracklets are
\* no identifier of an input trajectory, and the identifiers of the new
\* two-point trajectories are neither an input identifier nor a tracklet's;
\* the counter handed from stage to stage is above every identifier in use.
C16_FreshIds ==
    LET baseline == IF trajectory_df = <<>> THEN 0 ELSE Max(Ids(trajectory_df)) + 1
    IN  pc \notin {"start", "intra", "off"} =>
            /\ \A id \in Ids(tracklets) : id >= baseline /\ id \notin Ids(trajectory_df)
            /\ \A id \in Ids(new_trajectory) :
                  /\ id >= baseline
                  /\ id \notin Ids(trajectory_df)
                  /\ id \notin Ids(tracklets)
            /\ pc \in {"traj_new", "track_old", "old_new"} =>
                  \A id \in Ids(trajectory_df) \cup Ids(tracklets) : id < max_traj_id
C16_Witness ==
    /\ pc = "final"
    /\ trajectory_df # <<>>
    /\ tracklets # <<>>
    /\ new_trajectory # <<>>

\* the input trajectories beyond their window: most recent night more than
\* traj_time_window nights before next_nid, or more than
\* traj_2_points_time_window for a trajectory of two points
BeyondWindowIds ==
    {id \in Ids(trajectory_df) :
        \/ Age(LastRow(trajectory_df, id)) > TrajTimeWindow
        \/ /\ Len(RowsOf(trajectory_df, id)) = 2
           /\ Age(LastRow(trajectory_df, id)) > Traj2PointsTimeWindow}
BeyondWindowCandids ==
    {trajectory_df[i].candid :
        i \in {j \in DOMAIN trajectory_df : trajectory_df[j].trajectory_id \in BeyondWindowIds}}
    \cup {old_observation[i].candid :
            i \in {j \in DOMAIN old_observation : Age(old_observation[j]) > ObsTimeWindow}}

\* C17: window eviction.  A trajectory beyond its window and an old
\* observation beyond obs_time_window are given to no association stage and
\* are in no result of a stage; the trajectory is returned with the
\* observations it had and no other, the old observation is in no returned
\* trajectory.
C17_EvictedUntouched ==
    pc \notin {"start", "off"} =>
        /\ pc = "track_traj" =>
              (Candids(TrackTrajArgs[1]) \cup Candids(TrackTrajArgs[2]))
                  \cap BeyondWindowCandids = {}
        /\ pc = "traj_new" =>
              (Candids(TrajNewArgs[1]) \cup Candids(TrajNewArgs[2]))
                  \cap BeyondWindowCandids = {}
        /\ pc = "track_old" =>
              (Candids(TrackOldArgs[1]) \cup Candids(TrackOldArgs[2]))
                  \cap BeyondWindowCandids = {}
        /\ pc = "old_new" =>
              (Candids(OldNewArgs[1]) \cup Candids(OldNewArgs[2]))
                  \cap BeyondWindowCandids = {}
        /\ (Candids(traj_with_track) \cup Candids(traj_with_new_obs)
                \cup Candids(track_with_old_obs) \cup Candids(new_trajectory))
              \cap BeyondWindowCandids = {}
        /\ pc = "done" =>
              /\ \A id \in BeyondWindowIds :
                    Candids(RowsOf(trajectory_df, id)) \in Groups(ret_traj)
              /\ \A i \in DOMAIN old_observation :
                    Age(old_observation[i]) > ObsTimeWindow
                        => old_observation[i].candid \notin Candids(ret_traj)
C17_Witness ==
    /\ pc = "done"
    /\ \E id \in BeyondWindowIds :
          Age(LastRow(trajectory_df, id)) <= TrajTimeWindow
    /\ \E i \in DOMAIN old_observation : Age(old_observation[i]) > ObsTimeWindow
    /\ sep_criterion = FarSep
    /\ new_trajectory # <<>>

\* C18: the cycle never aborts.  Whatever tables are empty and whatever the
\* flags, night_to_night_association does not raise: no call ends anywhere
\* but in its return.
C18_NeverAborts ==
    pc # "raised"

\* C19: read_oel never propagates a failure.  When the .oel file is absent,
\* truncated (fewer lines than a whole result) or of an unexpected structure,
\* read_oel returns the record whose entries are all -1, of 13 entries for
\* one designation, the failure is logged, and nothing is raised.
C19_ReadOelSentinel ==
    (/\ call.fn \in {"read_oel", "read_oel_orbfit_management"}
     /\ result.state # "none"
     /\ \/ call.file.state \in {"absent", "undecodable"}
        \/ call.file.nlines < MaxLines
        \/ ~call.file.epoch_ok
        \/ ~call.file.rms_ok)
    => /\ result.state = "returned"
       /\ \A i \in DOMAIN result.value : result.value[i] = "-1"
       /\ call.fn = "read_oel" => Len(result.value) = 13
       /\ result.logged

\* C20: the geometric matcher returns exactly the pairs within the
\* criterion.  The three outputs have one length; at each position the left
\* row is an old observation, the right row a new observation and the
\* separation is theirs and is at most the criterion; every pair of an old and
\* a new observation within the criterion is at exactly one position, so an
\* observation is at as many positions as it has partners; with an empty
\* input the three outputs are empty.
C20_ExactPairs ==
    (call.fn = "night_to_night_separation_association" /\ result.state # "none") =>
        /\ result.state = "returned"
        /\ LET old_obs == call.old_observation
               new_obs == call.new_observation
               left == result.value[1]
               right == result.value[2]
               sep2d == result.value[3]
           IN  /\ Len(left) = Len(right) /\ Len(right) = Len(sep2d)
               /\ \A k \in DOMAIN left :
                     /\ left[k] \in Range(old_obs)
                     /\ right[k] \in Range(new_obs)
                     /\ sep2d[k] = Separation(left[k], right[k])
                     /\ sep2d[k] <= call.separation_criterion
               /\ \A i \in DOMAIN old_obs, j \in DOMAIN new_obs :
                     Separation(old_obs[i], new_obs[j]) <= call.separation_criterion
                         => Cardinality({k \in DOMAIN left :
                                            left[k] = old_obs[i] /\ right[k] = new_obs[j]}) = 1
               /\ (old_obs = <<>> \/ new_obs = <<>>)
                     => (left = <<>> /\ right = <<>> /\ sep2d = <<>>)
\* an old observation at two positions, and a pair left out as too far
C20_Witness ==
    /\ call.fn = "night_to_night_separation_association"
    /\ result.state = "returned"
    /\ \E k, l \in DOMAIN result.value[1] :
          k # l /\ result.value[1][k] = result.value[1][l]
    /\ Len(result.value[1]) < Len(call.old_observation) * Len(call.new_observation)
    /\ \E k \in DOMAIN result.value[3] : result.value[3][k] = call.separation_criterion

\* s is t with some elements left out, the others in their order
IsSubsequence(s, t) ==
    \E f \in [DOMAIN s -> DOMAIN t] :
        /\ \A i, j \in DOMAIN s : i < j => f[i] < f[j]
        /\ \A i \in DOMAIN s : s[i] = t[f[i]]
\* |mag_left - mag_right|, per day when the gap exceeds one day, is at most
\* the threshold of the pair's bands
WithinMagThreshold(p, same, diff) ==
    LET gap == p.alert.jd - p.orbit.last_jd
        d == Abs(p.alert.magpsf - p.orbit.last_mag)
        threshold == IF p.alert.fid = p.orbit.last_fid THEN same ELSE diff
    IN  IF gap > Day THEN d * Day <= threshold * gap ELSE d <= threshold

\* C21: every pair the photometric filter accepts has its magnitude
\* difference (divided by the time gap when the gap exceeds one day) at most
\* the same-band threshold when the bands are equal and at most the
\* different-band threshold otherwise, and the accepted pairs are a
\* subsequence of the candidate pairs in their original order.
C21_MagnitudeFilter ==
    (call.fn = "orbit_association" /\ result.state = "returned") =>
        /\ \A k \in DOMAIN result.accepted :
              WithinMagThreshold(result.accepted[k], call.mag_criterion_same_fid,
                                 call.mag_criterion_diff_fid)
        /\ IsSubsequence(result.accepted, result.candidates)
\* both bands accepted, one pair over a gap of more than a day, and a
\* candidate rejected between two accepted ones or beside them
C21_Witness ==
    /\ call.fn = "orbit_association" /\ result.state = "returned"
    /\ Len(result.accepted) >= 2
    /\ Len(result.accepted) < Len(result.candidates)
    /\ \E k \in DOMAIN result.accepted :
          /\ result.accepted[k].alert.fid = result.accepted[k].orbit.last_fid
          /\ result.accepted[k].alert.jd - result.accepted[k].orbit.last_jd > Day
          /\ result.accepted[k].alert.magpsf # result.accepted[k].orbit.last_mag
    /\ \E k \in DOMAIN result.accepted :
          result.accepted[k].alert.fid # result.accepted[k].orbit.last_fid

\* association k of a cone-search call has its normalized angle within the
\* criterion: the angle at the last point of the trajectory, divided by the
\* time gap to the candidate when that gap exceeds one day
ConeWithin(c, k) ==
    LET two_last == SelectSeq(c.two_last_observations,
                        LAMBDA r : r.trajectory_id = c.traj_assoc[k].trajectory_id)
        P1 == two_last[1]
        P2 == two_last[2]
        P3 == c.new_obs_assoc[k]
        gap == P3.jd - P2.jd
        theta == angle_three_point(<<P1.ra, P1.dec>>, <<P2.ra, P2.dec>>, <<P3.ra, P3.dec>>)
    IN  /\ ~theta.nan
        /\ theta.right_angles <= c.angle_criterion * (IF gap > 1 THEN gap ELSE 1)

\* C22: cone_search_association keeps an association between a trajectory
\* and a candidate point iff its normalized angle is at most
\* angle_criterion, and the kept trajectory rows and candidate rows stay
\* paired row by row.
C22_ConeSearch ==
    (call.fn = "cone_search_association" /\ result.state # "none") =>
        /\ result.state = "returned"
        /\ Len(result.value[1]) = Len(result.value[2])
        /\ \A j \in DOMAIN result.value[1] :
              \E k \in DOMAIN call.traj_assoc :
                  /\ result.value[1][j] = call.traj_assoc[k]
                  /\ result.value[2][j].candid = call.new_obs_assoc[k].candid
        /\ {result.value[2][j].candid : j \in DOMAIN result.value[2]}
             = {call.new_obs_assoc[k].candid :
                  k \in {i \in DOMAIN call.traj_assoc : ConeWithin(call, i)}}
        /\ \A i, j \in DOMAIN result.value[2] :
              i # j => result.value[2][i].candid # result.value[2][j].candid

\* the alphabet without the letter I
AlphabetWithoutI ==
    <<"A", "B", "C", "D", "E", "F", "G", "H", "J", "K", "L", "M", "N",
      "O", "P", "Q", "R", "S", "T", "U", "V", "W", "X", "Y", "Z">>
MonthNumber(m) ==
    CHOOSE k \in 1..12 :
        <<"01", "02", "03", "04", "05", "06", "07", "08", "09", "10", "11", "12">>[k] = m

Consumed == Candids(ret_traj) \ Candids(trajectory_df)
\* the new-night observations left unassociated by a returned cycle
UnassociatedNew == Candids(new_observation) \cap Candids(ret_old)

\* C24: pool hand-over between cycles.  The pool a cycle returns holds
\* exactly the kept old observations that no stage consumed and the
\* new-night observations that neither the intra-night step nor a stage
\* consumed, each once; the next cycle receives every new observation left
\* unassociated as an old observation one night old, and a cycle offers to
\* its stages the old observations that are within obs_time_window, and
\* only those.
C24_PoolHandOver ==
    /\ [](pc = "done" =>
            /\ Candids(ret_old)
                 = (Candids(kept_old_observation) \cup Candids(new_observation)) \ Consumed
            /\ Cardinality(Candids(ret_old)) = Len(ret_old))
    /\ [][/\ (pc = "done" /\ pc' = "start") =>
                \A c \in UnassociatedNew :
                    \E i \in DOMAIN old_observation' :
                        /\ old_observation'[i].candid = c
                        /\ NextNid - old_observation'[i].nid = 1
          /\ (pc = "start" /\ pc' = "intra") =>
                Candids(kept_old_observation')
                  = {old_observation[i].candid :
                       i \in {j \in DOMAIN old_observation :
                                NextNid - old_observation[j].nid <= ObsTimeWindow}}]_vars
\* a later night returns a pool with an old observation kept from the
\* night before and a new one, an old observation having been consumed
C24_Witness ==
    /\ pc = "done"
    /\ NightsDone >= 1
    /\ Candids(kept_old_observation) \cap Candids(ret_old) # {}
    /\ Candids(kept_old_observation) \cap Consumed # {}
    /\ UnassociatedNew # {}
    /\ Candids(new_observation) \cap Consumed # {}

\* the ephemerides orbit_association may link alert i of the call to: those
\* of the window within the error radius of the alert, the alert being one
\* the association runs on, whose orbit passes the magnitude filter
LinkableEphem(c, i) ==
    LET alerts_mask == roid_mask(c.alerts, c.confirmed_sso)
        ephem_to_keep == ephem_window(c.ephem_file.rows, alerts_mask).value
        orbit(e) == CHOOSE o \in Range(c.orbit_file.rows) : o.ssoCandId = e.ssoCandId
    IN  IF \A k \in DOMAIN alerts_mask : alerts_mask[k].idx_mask # i THEN {}
        ELSE {e \in Range(ephem_to_keep) :
                /\ Separation(c.alerts[i], e) <= c.orbit_error
                /\ RateBelowCriterion(c.alerts[i], orbit(e), c.mag_criterion_same_fid,
                                      c.mag_criterion_diff_fid)}

\* C25: orbit_association links an alert to at most one orbit, the one at
\* the smallest separation among the ephemerides that pass the magnitude
\* filter; a linked alert gets flag 5, the orbit identifier and the
\* distance, and every other alert keeps its flag, an empty estimator
\* identifier and an empty distance.
C25_ClosestOrbit ==
    (/\ call.fn = "orbit_association" /\ result.state = "returned"
     /\ call.ephem_file.state = "table" /\ call.orbit_file.state = "table") =>
        \A i \in DOMAIN call.alerts :
            LET linkable == LinkableEphem(call, i)
                closest == {e \in linkable :
                              \A f \in linkable :
                                  Separation(call.alerts[i], e) <= Separation(call.alerts[i], f)}
            IN  IF linkable # {}
                THEN /\ result.value[1][i] = 5
                     /\ \E e \in closest :
                          /\ result.value[2][i] = <<e.ssoCandId>>
                          /\ result.value[3][i] = <<Separation(call.alerts[i], e)>>
                ELSE /\ result.value[1][i] = call.alerts[i].flag
                     /\ result.value[2][i] = <<>>
                     /\ result.value[3][i] = <<>>


\* the ephemerides of a call that fall in the window of its current alerts:
\* those between the first and the last date of the alerts the flag mask
\* keeps, in a sky pixel that holds one of them
InAlertWindow(c) ==
    LET alerts_mask == roid_mask(c.alerts, c.confirmed_sso)
        jds == {alerts_mask[i].jd : i \in DOMAIN alerts_mask}
        pixels == {ang2pix(alerts_mask[i].ra) : i \in DOMAIN alerts_mask}
    IN  {k \in DOMAIN c.ephem_file.rows :
            /\ \E j \in jds : j <= c.ephem_file.rows[k].epoch_jd
            /\ \E j \in jds : c.ephem_file.rows[k].epoch_jd <= j
            /\ ang2pix(c.ephem_file.rows[k].ra) \in pixels}

\* the four cases of lines 361-379
MissingFile(c) == c.ephem_file.state = "absent" \/ c.orbit_file.state = "absent"
EmptyEphemeris(c) == ~MissingFile(c) /\ c.ephem_file.rows = <<>>
NothingInWindow(c) ==
    /\ ~MissingFile(c)
    /\ c.ephem_file.rows # <<>>
    /\ roid_mask(c.alerts, c.confirmed_sso) # <<>>
    /\ InAlertWindow(c) = {}

C27_UniqueDesignation ==
    (/\ call.fn = "write_observation_file" /\ result.state = "returned"
     /\ \A i \in 1..2 : call.trajectory_ids[i] \in 0..(25 * 610 - 1)) =>
        /\ result.value[1] # result.value[2]
        /\ DOMAIN result.mpcobs = {result.value[1], result.value[2]}
        /\ \A i \in 1..2 : result.mpcobs[result.value[i]] = call.trajectory_ids[i]


\* the observations of a table of trajectories, row by row
ObsRows(tab) == [i \in DOMAIN tab |-> AsObsRow(tab[i])]

C29_TrajPoolDisjoint ==
    (pc = "done" /\ Candids(trajectory_df) \cap Candids(old_observation) = {}) =>
        Candids(ret_traj) \cap Candids(ret_old) = {}
\* a cycle has returned after a tracklet took an old observation: the pool
\* it returns holds an old and a new observation, the trajectory set an old
\* one of the pool it was given
C29_Witness ==
    /\ pc = "done"
    /\ Candids(trajectory_df) \cap Candids(old_observation) = {}
    /\ Candids(ret_old) \cap Candids(old_observation) # {}
    /\ Candids(ret_old) \cap Candids(new_observation) # {}
    /\ Len(track_with_old_obs) > Len(not_associated_tracklets)
    /\ Candids(ret_traj) \cap Candids(old_observation) # {}


\* the new-night tracklets that already have orbfit_limit observations, and
\* their observations
LongTrackletIds == {id \in Ids(tracklets) : Len(RowsOf(tracklets, id)) >= orbfit_limit}
LongTrackletCandids ==
    UNION {Candids(RowsOf(tracklets, id)) : id \in LongTrackletIds}

\* C30: long tracklets bypass the inter-night stages.  A new-night tracklet
\* with at least orbfit_limit observations is given to none of the four
\* association stages and is in no result of a stage, and is returned as a
\* trajectory with exactly its intra-night observations; the two tracklet
\* stages are offered the tracklets below orbfit_limit and no other.
C30_LongTrackletsBypass ==
    /\ pc = "track_traj" =>
          /\ Candids(TrackTrajArgs[1]) \cap LongTrackletCandids = {}
          /\ Ids(TrackTrajArgs[2]) = Ids(tracklets) \ LongTrackletIds
          /\ \A id \in Ids(TrackTrajArgs[2]) :
                RowsOf(TrackTrajArgs[2], id) = RowsOf(tracklets, id)
    /\ pc = "traj_new" =>
          (Candids(TrajNewArgs[1]) \cup Candids(TrajNewArgs[2])) \cap LongTrackletCandids = {}
    /\ pc = "track_old" =>
          /\ Candids(TrackOldArgs[2]) \cap LongTrackletCandids = {}
          /\ Ids(TrackOldArgs[1]) \subseteq Ids(tracklets) \ LongTrackletIds
          /\ \A id \in Ids(TrackOldArgs[1]) :
                RowsOf(TrackOldArgs[1], id) = RowsOf(tracklets, id)
    /\ pc = "old_new" =>
          (Candids(OldNewArgs[1]) \cup Candids(OldNewArgs[2])) \cap LongTrackletCandids = {}
    /\ pc \in {"traj_new", "track_old", "old_new", "final", "done", "raised"} =>
          (Candids(traj_with_track) \cup Candids(traj_with_new_obs)
              \cup Candids(track_with_old_obs) \cup Candids(new_trajectory))
            \cap LongTrackletCandids = {}
    /\ pc = "done" =>
          \A id \in LongTrackletIds : Candids(RowsOf(tracklets, id)) \in Groups(ret_traj)
\* a cycle has returned a long tracklet after the stage of the tracklets
\* and the trajectories was called
C30_Witness ==
    /\ pc = "done"
    /\ LongTrackletIds # {}
    /\ \E k \in DOMAIN trace : trace[k].stage = "track_traj" /\ trace[k].ran

====
